---- MODULE Spec2Model ----
(***************************************************************************)
(* A model of the ascii-presenter pipeline:                                *)
(*   SourcePresentation --Engine::compile--> Vec<ResolvedScene>            *)
(*                      --Renderer::render--> PlayablePresentation         *)
(*                      --Player--> grid on the terminal                   *)
(* Characters are one-character strings; the box-drawing and arrow glyphs  *)
(* are written as ASCII names ("box_dr" for the corner that runs down    *)
(* and right, "tri_right" for the right-pointing triangle, ...).           *)
(* Grids and vectors are 1-based sequences: cell (x, y) of the code is     *)
(* grid[y + 1][x + 1] here.                                                *)
(***************************************************************************)
EXTENDS Integers, Sequences, FiniteSets, TLC

VARIABLES
    pc,              \* where the run is: "compile", "compiled", "rendered", "player", ...
    overflow_checks, \* the build: TRUE when integer overflow panics (debug profile)
    source,          \* the SourcePresentation handed to Engine::compile
    frame,           \* the frame index handed to resolve / evaluate
    next_object,     \* resolve_frame's position in source.objects (1-based)
    ops,             \* resolve_frame's `ops` vector
    scenes,          \* Vec<ResolvedScene>: what Engine::compile returned
    contract,        \* TerminalContract handed to Renderer::render
    frames,          \* PlayablePresentation.frames
    grid,            \* Player.grid
    current_frame,   \* Player.current_frame
    coord,           \* the Coordinate being evaluated
    value,           \* what Coordinate::evaluate returned
    table,           \* the Table that table_add_column / table_remove_column edit
    edit_log,        \* the column edits made so far, each with the table it was made on
    loop,            \* the word-wrap or Arrow segment loop that is running
    state,           \* the editor's EditorState
    history          \* the editor's latest edits of its source, each with the source before and after

engine_vars == <<overflow_checks, source, next_object, ops>>
render_vars == <<scenes, contract, frames, grid, current_frame>>
coord_vars == <<coord, value>>
table_vars == <<table, edit_log>>
loop_vars == <<loop>>
editor_vars == <<state, history>>

vars == <<pc, frame, engine_vars, render_vars, coord_vars, table_vars, loop_vars, editor_vars>>

Min(a, b) == IF a < b THEN a ELSE b
Max(a, b) == IF a > b THEN a ELSE b

\* ------------------------------------------------------------------------
\* types.rs
\* ------------------------------------------------------------------------

\* Style::default(): no colours, not bold, not dim.
DefaultStyle == [fg |-> "none", bg |-> "none", bold |-> FALSE, dim |-> FALSE]

BoldStyle == [DefaultStyle EXCEPT !.bold = TRUE]

\* Cell::default(): a space with the default style.
DefaultCell == [ch |-> " ", style |-> DefaultStyle]

DrawOp(x, y, ch, style, z_order) ==
    [x |-> x, y |-> y, ch |-> ch, style |-> style, z_order |-> z_order]

ResolvedScene(width, height, scene_ops) ==
    [width |-> width, height |-> height, ops |-> scene_ops]

CellChange(x, y, cell) == [x |-> x, y |-> y, cell |-> cell]

\* Frame::Full { cells } and Frame::Diff { changes }.
FrameFull(cells) == [type |-> "full", cells |-> cells, changes |-> <<>>]
FrameDiff(changes) == [type |-> "diff", cells |-> <<>>, changes |-> changes]

\* ------------------------------------------------------------------------
\* f64 arithmetic as Coordinate::evaluate uses it: IEEE 754 binary64 with
\* round-to-nearest-even.  A non-negative number is a sequence of limbs (digits
\* in base 2^15), least significant first.  Fractions carry FracLimbs limbs
\* after the point, which holds more than 53 significant bits of any quotient
\* a / b with 0 < a < b < 2^16.
\* ------------------------------------------------------------------------

U16Max == 65535
F64Precision == 53
LimbBits == 15
LimbBase == 2^LimbBits
FracLimbs == 5

Zeros(k) == [i \in 1..k |-> 0]

Limb(x, i) == IF i >= 1 /\ i <= Len(x) THEN x[i] ELSE 0

\* The limbs of a natural below 2^30.
LimbsOf(n) == <<n % LimbBase, n \div LimbBase>>

\* x without its leading (most significant) zero limbs.
Normal(x) ==
    LET used == {i \in 1..Len(x) : x[i] # 0}
    IN IF used = {} THEN <<>>
       ELSE SubSeq(x, 1, CHOOSE m \in used : \A j \in used : j <= m)

\* The number of significant bits of a number without leading zero limbs.
TopBits(n) ==
    IF n = <<>> THEN 0
    ELSE LimbBits * (Len(n) - 1)
            + Cardinality({k \in 0..(LimbBits - 1) : 2^k <= n[Len(n)]})

\* The number of significant bits of x.
BitLength(x) == TopBits(Normal(x))

\* a + b, from limb i on, with a carry in.
RECURSIVE AddLimbs(_, _, _, _)
AddLimbs(a, b, i, carry) ==
    IF i > Len(a) /\ i > Len(b) THEN (IF carry = 0 THEN <<>> ELSE <<carry>>)
    ELSE LET v == Limb(a, i) + Limb(b, i) + carry
         IN <<v % LimbBase>> \o AddLimbs(a, b, i + 1, v \div LimbBase)

\* a - b for a >= b, from limb i on, with a borrow in.
RECURSIVE SubLimbs(_, _, _, _)
SubLimbs(a, b, i, borrow) ==
    IF i > Len(a) THEN <<>>
    ELSE LET v == Limb(a, i) - Limb(b, i) - borrow
         IN <<IF v < 0 THEN v + LimbBase ELSE v>>
                \o SubLimbs(a, b, i + 1, IF v < 0 THEN 1 ELSE 0)

\* a * m for a natural m <= 65535, from limb i on, with a carry in.
RECURSIVE MulLimbs(_, _, _, _)
MulLimbs(a, m, i, carry) ==
    IF i > Len(a) THEN LimbsOf(carry)
    ELSE LET v == a[i] * m + carry
         IN <<v % LimbBase>> \o MulLimbs(a, m, i + 1, v \div LimbBase)

\* n with its bits below last_bit of limb last_limb cleared, rounded up by one
\* unit of that bit when the guard bit (the first one dropped) is set and
\* either something non-zero lies below it or the last kept bit is odd.
RoundAt(n, guard_limb, guard_bit, last_limb, last_bit, inexact) ==
    LET guard == (n[guard_limb] \div guard_bit) % 2
        sticky == \/ inexact
                  \/ n[guard_limb] % guard_bit # 0
                  \/ \E i \in 1..(guard_limb - 1) : n[i] # 0
        odd == (n[last_limb] \div last_bit) % 2 = 1
        kept == Zeros(last_limb - 1)
                    \o <<n[last_limb] - (n[last_limb] % last_bit)>>
                    \o SubSeq(n, last_limb + 1, Len(n))
        unit == Zeros(last_limb - 1) \o <<last_bit>>
    IN IF guard = 1 /\ (sticky \/ odd)
       THEN Normal(AddLimbs(kept, unit, 1, 0))
       ELSE kept

\* n rounded so that its lowest `drop` bits go.
RoundDropping(n, drop, inexact) ==
    IF drop <= 0 THEN n
    ELSE RoundAt(n, (drop - 1) \div LimbBits + 1, 2^((drop - 1) % LimbBits),
                 drop \div LimbBits + 1, 2^(drop % LimbBits), inexact)

\* The nearest number with at most 53 significant bits, ties to the even one:
\* how every f64 operation rounds its exact result.  The exact result is x,
\* plus a non-zero amount below x's last bit when `inexact`.
RoundToF64(x, inexact) ==
    RoundDropping(Normal(x), BitLength(x) - F64Precision, inexact)

\* Long division: the first k limbs after the point of rem / b (rem < b), and
\* the remainder left.
RECURSIVE DivLimbs(_, _, _)
DivLimbs(rem, b, k) ==
    IF k = 0 THEN [q |-> <<>>, rem |-> rem]
    ELSE [q |-> DivLimbs((rem * LimbBase) % b, b, k - 1).q
                    \o <<(rem * LimbBase) \div b>>,
          rem |-> DivLimbs((rem * LimbBase) % b, b, k - 1).rem]

\* A quotient and whether a remainder is left, rounded to f64.
RoundQuotient(d) == RoundToF64(d.q, d.rem # 0)

\* a as f64 / b as f64 for integers 0 < a < b: the quotient rounded to f64,
\* with FracLimbs limbs after the point.
F64Div(a, b) == RoundQuotient(DivLimbs(a, b, FracLimbs))

\* ------------------------------------------------------------------------
\* f64 arithmetic as the table's column fractions use it.  A fraction is a
\* non-negative f64 of at least 2^-22, kept exactly as limbs with FracLimbs
\* limbs after the point.
\* ------------------------------------------------------------------------

\* 1.0
One == Zeros(FracLimbs) \o <<1>>

\* a < b, for numbers as limbs.
LtLimbs(a, b) ==
    LET differ == {i \in 1..Max(Len(a), Len(b)) : Limb(a, i) # Limb(b, i)}
    IN /\ differ # {}
       /\ Limb(a, CHOOSE i \in differ : \A j \in differ : j <= i)
            < Limb(b, CHOOSE i \in differ : \A j \in differ : j <= i)

\* a * b in full, from limb j of b on.
RECURSIVE MulFull(_, _, _)
MulFull(a, b, j) ==
    IF j > Len(b) THEN <<>>
    ELSE AddLimbs(Zeros(j - 1) \o MulLimbs(a, b[j], 1, 0), MulFull(a, b, j + 1), 1, 0)

\* A product of two fractions, rounded, back to FracLimbs limbs after the
\* point: the limbs dropped are zero.
DropFracLimbs(x) == Normal(SubSeq(x, FracLimbs + 1, Len(x)))

\* a * b on f64
F64Mul(a, b) == DropFracLimbs(RoundToF64(MulFull(a, b, 1), FALSE))

\* a - b on f64, for a >= b
F64Sub(a, b) == RoundToF64(SubLimbs(a, b, 1, 0), FALSE)

\* Fifteen steps of binary long division: the next limb of rem / d and the
\* remainder left, for rem < d.
RECURSIVE DivBitLoop(_, _, _, _)
DivBitStep(doubled, d, j, digit) ==
    IF LtLimbs(doubled, d) THEN DivBitLoop(doubled, d, j - 1, 2 * digit)
    ELSE DivBitLoop(Normal(SubLimbs(doubled, d, 1, 0)), d, j - 1, 2 * digit + 1)

DivBitLoop(rem, d, j, digit) ==
    IF j = 0 THEN [digit |-> digit, rem |-> rem]
    ELSE DivBitStep(Normal(MulLimbs(rem, 2, 1, 0)), d, j, digit)

\* The next k limbs of rem / d put before the limbs q found so far (least
\* significant first), and the remainder.  The test on the digit always holds:
\* it has one limb worked out before the next is begun.
RECURSIVE DivDigits(_, _, _, _)
DivDigitsAfter(step, d, k, q) ==
    IF step.digit >= 0 THEN DivDigits(step.rem, d, k - 1, <<step.digit>> \o q)
    ELSE [q |-> q, rem |-> step.rem]

DivDigits(rem, d, k, q) ==
    IF k = 0 THEN [q |-> q, rem |-> rem]
    ELSE DivDigitsAfter(DivBitLoop(rem, d, LimbBits, 0), d, k, q)

\* 1.0 / r on f64, for 2^-15 < r: the whole part and FracLimbs limbs after
\* the point, rounded.
RoundDigits(d) == RoundToF64(d.q, d.rem # <<>>)

F64Recip(r) ==
    RoundDigits(DivDigits(Zeros(FracLimbs - 1) \o <<1>>, r, FracLimbs + 1, <<>>))

\* a as f64 / b as f64 for integers 0 < a <= b
F64Ratio(a, b) == IF a = b THEN One ELSE F64Div(a, b)

\* ------------------------------------------------------------------------
\* engine/source.rs
\* ------------------------------------------------------------------------

\* Coordinate::Fixed(v): v is kept in halves, v = halves / 2.
Fixed(halves) == [kind |-> "fixed", halves |-> halves]

Animated(from, to, start_frame, end_frame) ==
    [kind |-> "animated", from |-> from, to |-> to,
     start_frame |-> start_frame, end_frame |-> end_frame]

\* `x as u16` of a non-negative f64 that holds an integer: saturating.
AsU16(n) == IF n > U16Max THEN U16Max ELSE n

\* Mutant: the interpolated value is cast without .round(), so it truncates.
Interpolate_truncating(c, f) ==
    (c.from * (c.end_frame - c.start_frame)
        + (c.to - c.from) * (f - c.start_frame)) \div (c.end_frame - c.start_frame)

\* `from as f64 + product` for a product of the sign of to - from, rounded.
F64Offset(c, product) ==
    RoundToF64(IF c.to >= c.from
               THEN AddLimbs(Zeros(FracLimbs) \o LimbsOf(c.from), product, 1, 0)
               ELSE SubLimbs(Zeros(FracLimbs) \o LimbsOf(c.from), product, 1, 0),
               FALSE)

\* `x.round() as u16` of a non-negative x: half rounds up.
RoundAsU16(x) ==
    AsU16(Limb(x, FracLimbs + 1) + LimbBase * Limb(x, FracLimbs + 2)
            + (IF 2 * Limb(x, FracLimbs) >= LimbBase THEN 1 ELSE 0))

\* The interpolation of Coordinate::evaluate, reached when
\* start_frame < frame < end_frame:
\*   progress = (frame - start_frame) as f64 / (end_frame - start_frame) as f64
\*   (from as f64 + (to as f64 - from as f64) * progress).round() as u16
Interpolate(c, f) ==
    RoundAsU16(F64Offset(c,
        RoundToF64(MulLimbs(F64Div(f - c.start_frame, c.end_frame - c.start_frame),
                            IF c.to >= c.from THEN c.to - c.from ELSE c.from - c.to,
                            1, 0),
                   FALSE)))

\* Mutant: the end_frame test comes before the start_frame test.
evaluate_end_first(c, f) ==
    IF c.kind = "fixed"
    THEN AsU16((IF c.halves > 0 THEN c.halves ELSE 0) \div 2)
    ELSE IF f >= c.end_frame THEN c.to
    ELSE IF f <= c.start_frame THEN c.from
    ELSE Interpolate(c, f)

\* Coordinate::evaluate
evaluate(c, f) ==
    IF c.kind = "fixed"
    THEN AsU16((IF c.halves > 0 THEN c.halves ELSE 0) \div 2)
    ELSE IF f <= c.start_frame THEN c.from
    ELSE IF f >= c.end_frame THEN c.to
    ELSE Interpolate(c, f)

\* Mutant: the end of the range is taken as its last frame.
contains_through_end(frames_range, f) ==
    f >= frames_range.start /\ f <= frames_range.end

\* FrameRange::contains
contains(frames_range, f) == f >= frames_range.start /\ f < frames_range.end

\* Position { x, y }, FrameRange { start, end }
Position(x, y) == [x |-> x, y |-> y]
FrameRange(start, end) == [start |-> start, end |-> end]

\* ------------------------------------------------------------------------
\* Integer arithmetic of the resolvers.  Positions are u16 and z_order is
\* i32.  An addition or subtraction whose exact result does not fit panics
\* when the build checks overflow (the debug profile) and wraps otherwise
\* (the release profile); the sources do not fix the profile.
\* ------------------------------------------------------------------------

I32Max == 2147483647

\* A u16 result as wrapping arithmetic leaves it.
Wrap16(n) == n % (U16Max + 1)

\* The exact result n of a u16 operation does not fit a u16.
Overflows16(n) == n < 0 \/ n > U16Max

\* z + 1 on i32, wrapping.
WrappingInc32(z) == IF z = I32Max THEN (0 - I32Max) - 1 ELSE z + 1

\* u16::saturating_sub, usize::saturating_sub
saturating_sub(a, b) == IF a > b THEN a - b ELSE 0

\* Option<T>: None is the empty sequence, Some(v) the sequence <<v>>.
None == <<>>
Some(v) == <<v>>

\* The sum of a sequence of numbers.
RECURSIVE SumSeq(_)
SumSeq(s) == IF Len(s) = 0 THEN 0 ELSE s[1] + SumSeq(Tail(s))

\* The concatenation of a sequence of sequences, in order.
RECURSIVE Flatten(_)
Flatten(ss) ==
    IF Len(ss) = 0 THEN <<>>
    ELSE IF Len(ss) = 1 THEN ss[1]
    ELSE LET half == Len(ss) \div 2
         IN Flatten(SubSeq(ss, 1, half)) \o Flatten(SubSeq(ss, half + 1, Len(ss)))

\* What one resolve call does: the DrawOps it pushes, with the coordinates
\* wrapping arithmetic gives them, and whether some step of its integer
\* arithmetic overflows.
Resolved(pushed, overflow) == [ops |-> pushed, overflow |-> overflow]

\* A resolve call given by its DrawOps with exact (unwrapped) coordinates and
\* by the exact results `sums` of the other u16 operations it makes.
Checked(exact_ops, sums, z_overflow) ==
    Resolved(
        [k \in 1..Len(exact_ops) |->
            [exact_ops[k] EXCEPT !.x = Wrap16(@), !.y = Wrap16(@)]],
        \/ \E k \in 1..Len(exact_ops) :
                Overflows16(exact_ops[k].x) \/ Overflows16(exact_ops[k].y)
        \/ \E v \in sums : Overflows16(v)
        \/ z_overflow)

\* ------------------------------------------------------------------------
\* engine/objects/group.rs, hline.rs, rect.rs
\* ------------------------------------------------------------------------

Group(members, frames_range, z_order) ==
    [type |-> "group", members |-> members, frames |-> frames_range,
     z_order |-> z_order]

\* impl Resolve for Group: nothing is pushed.
Group_resolve(o, f) == Resolved(<<>>, FALSE)

HLine(y, x_start, x_end, ch, style, frames_range, z_order) ==
    [type |-> "hline", y |-> y, x_start |-> x_start, x_end |-> x_end, ch |-> ch,
     style |-> style, frames |-> frames_range, z_order |-> z_order]

\* Mutant: the line runs through x_end.
HLine_draw_through_end(o, y, x_start, x_end) ==
    Resolved([i \in 1..(x_end - x_start + 1) |->
                DrawOp(x_start + (i - 1), y, o.ch, o.style, o.z_order)],
             FALSE)

\* The pushes of HLine's resolve, given the coordinates it evaluated.
HLine_draw(o, y, x_start, x_end) ==
    Resolved([i \in 1..(x_end - x_start) |->
                DrawOp(x_start + (i - 1), y, o.ch, o.style, o.z_order)],
             FALSE)

\* impl Resolve for HLine
HLine_resolve(o, f) ==
    IF ~contains(o.frames, f) THEN Resolved(<<>>, FALSE)
    ELSE HLine_draw(o, evaluate(o.y, f), evaluate(o.x_start, f),
                    evaluate(o.x_end, f))

Rect(position, width, height, style, frames_range, z_order, title) ==
    [type |-> "rect", position |-> position, width |-> width, height |-> height,
     style |-> style, frames |-> frames_range, z_order |-> z_order,
     title |-> title]

\* The pushes of Rect's resolve, given the position and size it evaluated.
Rect_draw(o, x, y, w, h) ==
    LET s == o.style
        z == o.z_order
        right == x + w - 1
        bottom == y + h - 1
        top_edge ==
            <<DrawOp(x, y, "box_dr", s, z)>>
            \o [i \in 1..(saturating_sub(w, 1) - 1) |->
                    DrawOp(x + i, y, "box_h", s, z)]
            \o (IF w > 1 THEN <<DrawOp(right, y, "box_dl", s, z)>> ELSE <<>>)
        side_edges ==
            Flatten([j \in 1..(saturating_sub(h, 1) - 1) |->
                <<DrawOp(x, y + j, "box_v", s, z)>>
                \o (IF w > 1 THEN <<DrawOp(right, y + j, "box_v", s, z)>>
                    ELSE <<>>)])
        bottom_edge ==
            IF h > 1
            THEN <<DrawOp(x, bottom, "box_ur", s, z)>>
                 \o [i \in 1..(saturating_sub(w, 1) - 1) |->
                        DrawOp(x + i, bottom, "box_h", s, z)]
                 \o (IF w > 1 THEN <<DrawOp(right, bottom, "box_ul", s, z)>>
                     ELSE <<>>)
            ELSE <<>>
        text == IF o.title = None THEN <<>> ELSE o.title[1]
        \* x + w - 1 as wrapping arithmetic leaves it
        limit == Wrap16(Wrap16(x + w) - 1)
        title_ops ==
            Flatten([i \in 1..Len(text) |->
                IF Wrap16(x + 2 + (i - 1)) < limit
                THEN <<DrawOp(x + 2 + (i - 1), y, text[i], s, WrappingInc32(z))>>
                ELSE <<>>])
        sums ==
            (IF w > 1 THEN {x + w} ELSE {})
            \cup (IF h > 1 THEN {y + h} ELSE {})
            \cup UNION {{x + 2 + (i - 1), x + w, x + w - 1} : i \in 1..Len(text)}
    IN Checked(top_edge \o side_edges \o bottom_edge \o title_ops, sums,
               z = I32Max /\ title_ops # <<>>)

\* impl Resolve for Rect
Rect_resolve(o, f) ==
    IF ~contains(o.frames, f) THEN Resolved(<<>>, FALSE)
    ELSE Rect_draw(o, evaluate(o.position.x, f), evaluate(o.position.y, f),
                   evaluate(o.width, f), evaluate(o.height, f))

\* ------------------------------------------------------------------------
\* Text.  A String is a sequence of characters; "\n" is the newline.
\* ------------------------------------------------------------------------

\* str::split('\n'): the lines of a text, at least one.
split(text) ==
    LET breaks == {i \in 1..Len(text) : text[i] = "\n"}
        at(k) == IF k = 0 THEN 0
                 ELSE IF k > Cardinality(breaks) THEN Len(text) + 1
                 ELSE CHOOSE i \in breaks : Cardinality({j \in breaks : j <= i}) = k
    IN [k \in 1..(Cardinality(breaks) + 1) |->
            SubSeq(text, at(k - 1) + 1, at(k) - 1)]

\* Mutant: the first space of chunk instead of the last.
position_space(chunk) ==
    LET spaces == {i \in 1..Len(chunk) : chunk[i] = " "}
    IN IF spaces = {} THEN 0 - 1
       ELSE (CHOOSE i \in spaces : \A j \in spaces : i <= j) - 1

\* chunk.iter().rposition(|&c| c == ' '): the 0-based index of the last space
\* of chunk, or -1 when it holds none.
rposition_space(chunk) ==
    LET spaces == {i \in 1..Len(chunk) : chunk[i] = " "}
    IN IF spaces = {} THEN 0 - 1
       ELSE (CHOOSE i \in spaces : \A j \in spaces : j <= i) - 1

\* The loop `while pos < chars.len() && chars[pos] == ' ' { pos += 1 }`:
\* the first position from pos on that holds no space (0-based).
skip_spaces(chars, pos) ==
    LET stops == {p \in pos..Len(chars) : p = Len(chars) \/ chars[p + 1] # " "}
    IN IF pos >= Len(chars) THEN pos
       ELSE CHOOSE p \in stops : \A q \in stops : p <= q

\* `vec![' '; w]` with the characters cs written from column col0 on.
padded_row(cs, col0, w) ==
    [i \in 1..w |-> IF i > col0 /\ i <= col0 + Len(cs) THEN cs[i - col0] ELSE " "]

\* char::is_ascii_digit
is_ascii_digit(ch) == ch \in {"0", "1", "2", "3", "4", "5", "6", "7", "8", "9"}

\* char::to_ascii_uppercase
to_ascii_uppercase(ch) ==
    LET lower == <<"a", "b", "c", "d", "e", "f", "g", "h", "i", "j", "k", "l", "m",
                   "n", "o", "p", "q", "r", "s", "t", "u", "v", "w", "x", "y", "z">>
        upper == <<"A", "B", "C", "D", "E", "F", "G", "H", "I", "J", "K", "L", "M",
                   "N", "O", "P", "Q", "R", "S", "T", "U", "V", "W", "X", "Y", "Z">>
    IN IF \E i \in 1..Len(lower) : lower[i] = ch
       THEN upper[CHOOSE i \in 1..Len(lower) : lower[i] = ch]
       ELSE ch

\* ------------------------------------------------------------------------
\* engine/objects/label.rs
\* ------------------------------------------------------------------------

\* draw_frame: the border's DrawOps with exact coordinates, and the exact
\* results of its other u16 operations.
draw_frame(fx, fy, fw_usize, fh_usize, style, z) ==
    IF fw_usize < 2 \/ fh_usize < 2 THEN [ops |-> <<>>, sums |-> {}]
    ELSE LET fw == Wrap16(fw_usize)
             fh == Wrap16(fh_usize)
             right == fx + fw - 1
             bottom == fy + fh - 1
         IN [ops |->
                <<DrawOp(fx, fy, "box_dr", style, z),
                  DrawOp(right, fy, "box_dl", style, z),
                  DrawOp(fx, bottom, "box_ur", style, z),
                  DrawOp(right, bottom, "box_ul", style, z)>>
                \o Flatten([i \in 1..(Wrap16(fw - 1) - 1) |->
                        <<DrawOp(fx + i, fy, "box_h", style, z),
                          DrawOp(fx + i, bottom, "box_h", style, z)>>])
                \o Flatten([j \in 1..(Wrap16(fh - 1) - 1) |->
                        <<DrawOp(fx, fy + j, "box_v", style, z),
                          DrawOp(right, fy + j, "box_v", style, z)>>]),
             sums |-> {fx + fw, right, fy + fh, bottom, fw - 1, fh - 1}]

\* list_continuation_indent
list_continuation_indent(line) ==
    LET digit_count ==
            Cardinality({n \in 1..Len(line) :
                            \A i \in 1..n : is_ascii_digit(line[i])})
        after_digits == SubSeq(line, digit_count + 1, Len(line))
    IN IF Len(line) >= 2 /\ line[1] = "-" /\ line[2] = " " THEN 2
       ELSE IF /\ digit_count > 0
               /\ Len(after_digits) >= 2
               /\ after_digits[1] = "."
               /\ after_digits[2] = " " THEN 3
       ELSE 0

\* The `while pos < chars.len()` loop of Label's wrap_text_line, from
\* position pos on: the rows it pushes.
RECURSIVE wrap_rows(_, _, _, _, _)
wrap_rows(chars, w, indent, pos, first) ==
    IF pos >= Len(chars) THEN <<>>
    ELSE LET col0 == IF first THEN 0 ELSE Min(indent, saturating_sub(w, 1))
             avail == w - col0
             remaining == SubSeq(chars, pos + 1, Len(chars))
         IN IF Len(remaining) <= avail
            THEN <<padded_row(remaining, col0, w)>>
            ELSE LET sp == rposition_space(SubSeq(remaining, 1, avail))
                     row_len == IF sp >= 0 THEN sp ELSE avail
                     advance == IF sp >= 0 THEN sp + 1 ELSE avail
                 IN <<padded_row(SubSeq(remaining, 1, row_len), col0, w)>>
                    \o wrap_rows(chars, w, indent,
                                 skip_spaces(chars, pos + advance), FALSE)

\* wrap_text_line of label.rs
wrap_text_line(line, w) ==
    IF line = <<>> THEN <<<<>>>>
    ELSE wrap_rows(line, w, list_continuation_indent(line), 0, TRUE)

Label(text, position, width, height, framed, frame_style, style, frames_range, z_order) ==
    [type |-> "label", text |-> text, position |-> position, width |-> width,
     height |-> height, framed |-> framed, frame_style |-> frame_style,
     style |-> style, frames |-> frames_range, z_order |-> z_order]

\* The border of a framed label whose text box is text_w wide and text_h high.
label_border(o, base_x, base_y, text_w, text_h) ==
    IF ~o.framed THEN [ops |-> <<>>, sums |-> {}]
    ELSE draw_frame(saturating_sub(base_x, 1), saturating_sub(base_y, 1),
                    text_w + 2, text_h + 2,
                    IF o.frame_style = None THEN o.style ELSE o.frame_style[1],
                    o.z_order)

\* The rows built when width > 0: the wrapped rows of every line, at most h
\* of them when h > 0, and padded with empty rows up to h.
label_rows(lines, w, h) ==
    IF h > 0
    THEN [r \in 1..h |->
            IF r <= Len(Flatten([k \in 1..Len(lines) |-> wrap_text_line(lines[k], w)]))
            THEN Flatten([k \in 1..Len(lines) |-> wrap_text_line(lines[k], w)])[r]
            ELSE <<>>]
    ELSE Flatten([k \in 1..Len(lines) |-> wrap_text_line(lines[k], w)])

\* The branch `if w > 0` of Label's resolve: a DrawOp for every cell of
\* every row, up to width w when the style has a background.
Label_draw_wrapped(o, base_x, base_y, w, rows) ==
    Checked(
        Flatten([r \in 1..Len(rows) |->
            [c \in 1..(IF o.style.bg # "none" THEN w ELSE Len(rows[r])) |->
                DrawOp(base_x + (c - 1), base_y + (r - 1),
                       IF c <= Len(rows[r]) THEN rows[r][c] ELSE " ",
                       o.style, o.z_order)]])
        \o label_border(o, base_x, base_y, w, Len(rows)).ops,
        label_border(o, base_x, base_y, w, Len(rows)).sums,
        FALSE)

\* The branch `else` of Label's resolve: the first `row` lines as they are.
Label_draw_lines(o, base_x, base_y, h, lines, row) ==
    LET max_len == IF row = 0 THEN 0
                   ELSE LET longest == CHOOSE r \in 1..row :
                                \A q \in 1..row : Len(lines[q]) <= Len(lines[r])
                        IN Len(lines[longest])
        border == label_border(o, base_x, base_y, max_len,
                               IF h > 0 THEN h ELSE row)
    IN Checked(
        Flatten([r \in 1..row |->
            [c \in 1..Len(lines[r]) |->
                DrawOp(base_x + (c - 1), base_y + (r - 1), lines[r][c],
                       o.style, o.z_order)]])
        \o border.ops,
        border.sums,
        FALSE)

\* The pushes of Label's resolve, given the position and size it evaluated.
Label_draw(o, base_x, base_y, w, h) ==
    IF w > 0
    THEN Label_draw_wrapped(o, base_x, base_y, w, label_rows(split(o.text), w, h))
    ELSE Label_draw_lines(o, base_x, base_y, h, split(o.text),
                          IF h > 0 THEN Min(h, Len(split(o.text)))
                          ELSE Len(split(o.text)))

\* impl Resolve for Label
Label_resolve(o, f) ==
    IF ~contains(o.frames, f) THEN Resolved(<<>>, FALSE)
    ELSE Label_draw(o, evaluate(o.position.x, f), evaluate(o.position.y, f),
                    evaluate(o.width, f), evaluate(o.height, f))

\* ------------------------------------------------------------------------
\* engine/objects/font.rs, header.rs
\* ------------------------------------------------------------------------

\* A glyph: its width and, for each of its rows, the columns that are filled.
Glyph(width, rows) == [width |-> width, rows |-> rows]
NoGlyph == [width |-> 0, rows |-> <<>>]

\* font::glyph
glyph(ch) ==
    CASE ch = "A" -> Glyph(5, <<{1, 2, 3}, {0, 4}, {0, 1, 2, 3, 4}, {0, 4}, {0, 4}>>)
      [] ch = "B" -> Glyph(5, <<{0, 1, 2, 3}, {0, 4}, {0, 1, 2, 3}, {0, 4}, {0, 1, 2, 3}>>)
      [] ch = "C" -> Glyph(5, <<{1, 2, 3}, {0, 4}, {0}, {0, 4}, {1, 2, 3}>>)
      [] ch = "D" -> Glyph(5, <<{0, 1, 2, 3}, {0, 4}, {0, 4}, {0, 4}, {0, 1, 2, 3}>>)
      [] ch = "E" -> Glyph(5, <<{0, 1, 2, 3, 4}, {0}, {0, 1, 2}, {0}, {0, 1, 2, 3, 4}>>)
      [] ch = "F" -> Glyph(5, <<{0, 1, 2, 3, 4}, {0}, {0, 1, 2}, {0}, {0}>>)
      [] ch = "G" -> Glyph(5, <<{1, 2, 3}, {0}, {0, 3, 4}, {0, 4}, {1, 2, 3}>>)
      [] ch = "H" -> Glyph(5, <<{0, 4}, {0, 4}, {0, 1, 2, 3, 4}, {0, 4}, {0, 4}>>)
      [] ch = "I" -> Glyph(3, <<{0, 1, 2}, {1}, {1}, {1}, {0, 1, 2}>>)
      [] ch = "J" -> Glyph(5, <<{2, 3, 4}, {3}, {3}, {0, 3}, {1, 2}>>)
      [] ch = "K" -> Glyph(5, <<{0, 4}, {0, 3}, {0, 1, 2}, {0, 3}, {0, 4}>>)
      [] ch = "L" -> Glyph(5, <<{0}, {0}, {0}, {0}, {0, 1, 2, 3, 4}>>)
      [] ch = "M" -> Glyph(5, <<{0, 4}, {0, 1, 3, 4}, {0, 2, 4}, {0, 4}, {0, 4}>>)
      [] ch = "N" -> Glyph(5, <<{0, 4}, {0, 1, 4}, {0, 2, 4}, {0, 3, 4}, {0, 4}>>)
      [] ch = "O" -> Glyph(5, <<{1, 2, 3}, {0, 4}, {0, 4}, {0, 4}, {1, 2, 3}>>)
      [] ch = "P" -> Glyph(5, <<{0, 1, 2, 3}, {0, 4}, {0, 1, 2, 3}, {0}, {0}>>)
      [] ch = "Q" -> Glyph(5, <<{1, 2, 3}, {0, 4}, {0, 2, 4}, {0, 3}, {1, 2, 4}>>)
      [] ch = "R" -> Glyph(5, <<{0, 1, 2, 3}, {0, 4}, {0, 1, 2, 3}, {0, 3}, {0, 4}>>)
      [] ch = "S" -> Glyph(5, <<{1, 2, 3, 4}, {0}, {1, 2, 3}, {4}, {0, 1, 2, 3}>>)
      [] ch = "T" -> Glyph(5, <<{0, 1, 2, 3, 4}, {2}, {2}, {2}, {2}>>)
      [] ch = "U" -> Glyph(5, <<{0, 4}, {0, 4}, {0, 4}, {0, 4}, {1, 2, 3}>>)
      [] ch = "V" -> Glyph(5, <<{0, 4}, {0, 4}, {0, 4}, {1, 3}, {2}>>)
      [] ch = "W" -> Glyph(5, <<{0, 4}, {0, 4}, {0, 2, 4}, {0, 1, 3, 4}, {0, 4}>>)
      [] ch = "X" -> Glyph(5, <<{0, 4}, {1, 3}, {2}, {1, 3}, {0, 4}>>)
      [] ch = "Y" -> Glyph(5, <<{0, 4}, {1, 3}, {2}, {2}, {2}>>)
      [] ch = "Z" -> Glyph(5, <<{0, 1, 2, 3, 4}, {3}, {2}, {1}, {0, 1, 2, 3, 4}>>)
      [] ch = "0" -> Glyph(5, <<{1, 2, 3}, {0, 4}, {0, 4}, {0, 4}, {1, 2, 3}>>)
      [] ch = "1" -> Glyph(3, <<{1}, {0, 1}, {1}, {1}, {0, 1, 2}>>)
      [] ch = "2" -> Glyph(5, <<{1, 2, 3}, {0, 4}, {2, 3}, {1}, {0, 1, 2, 3, 4}>>)
      [] ch = "3" -> Glyph(5, <<{1, 2, 3}, {0, 4}, {2, 3}, {0, 4}, {1, 2, 3}>>)
      [] ch = "4" -> Glyph(5, <<{0, 3}, {0, 3}, {0, 1, 2, 3, 4}, {3}, {3}>>)
      [] ch = "5" -> Glyph(5, <<{0, 1, 2, 3, 4}, {0}, {0, 1, 2, 3}, {4}, {0, 1, 2, 3}>>)
      [] ch = "6" -> Glyph(5, <<{1, 2, 3}, {0}, {0, 1, 2, 3}, {0, 4}, {1, 2, 3}>>)
      [] ch = "7" -> Glyph(5, <<{0, 1, 2, 3, 4}, {3}, {2}, {1}, {1}>>)
      [] ch = "8" -> Glyph(5, <<{1, 2, 3}, {0, 4}, {1, 2, 3}, {0, 4}, {1, 2, 3}>>)
      [] ch = "9" -> Glyph(5, <<{1, 2, 3}, {0, 4}, {1, 2, 3, 4}, {3}, {1, 2, 3}>>)
      [] ch = " " -> Glyph(3, <<{}, {}, {}, {}, {}>>)
      [] ch = "!" -> Glyph(1, <<{0}, {0}, {0}, {}, {0}>>)
      [] ch = "." -> Glyph(1, <<{}, {}, {}, {}, {0}>>)
      [] ch = "-" -> Glyph(5, <<{}, {}, {0, 1, 2, 3, 4}, {}, {}>>)
      [] ch = "?" -> Glyph(5, <<{1, 2, 3}, {0, 4}, {2, 3}, {}, {2}>>)
      [] ch = ":" -> Glyph(1, <<{}, {0}, {}, {0}, {}>>)
      [] OTHER -> NoGlyph

Header(text, position, style, frames_range, z_order, ch) ==
    [type |-> "header", text |-> text, position |-> position, style |-> style,
     frames |-> frames_range, z_order |-> z_order, ch |-> ch]

\* The glyphs of the characters of text that the font holds, in order.
header_glyphs(text) ==
    LET drawn == SelectSeq(text, LAMBDA c : glyph(to_ascii_uppercase(c)) # NoGlyph)
    IN [i \in 1..Len(drawn) |-> glyph(to_ascii_uppercase(drawn[i]))]

\* cursor_x - base_x when the k-th drawn glyph starts: every glyph before it
\* moved the cursor by its width and the one-column gap.
cursor_offset(glyphs, k) ==
    SumSeq([j \in 1..(k - 1) |-> glyphs[j].width + 1])

\* What one glyph pushes with the cursor at cursor_x: its cells row by row,
\* then the gap column when the style has a background.
header_glyph_ops(o, g, cursor_x, base_y, bg_style) ==
    Flatten([r \in 1..Len(g.rows) |->
        Flatten([c \in 1..g.width |->
            IF (c - 1) \in g.rows[r]
            THEN <<DrawOp(cursor_x + (c - 1), base_y + (r - 1), o.ch,
                          o.style, o.z_order)>>
            ELSE IF o.style.bg # "none"
            THEN <<DrawOp(cursor_x + (c - 1), base_y + (r - 1), " ",
                          bg_style, o.z_order)>>
            ELSE <<>>])])
    \o (IF o.style.bg # "none"
        THEN [r \in 1..5 |->
                DrawOp(cursor_x + g.width, base_y + (r - 1), " ",
                       bg_style, o.z_order)]
        ELSE <<>>)

\* The pushes of Header's resolve, given the position it evaluated and the
\* glyphs of its text.
Header_draw(o, base_x, base_y, glyphs) ==
    Checked(Flatten([k \in 1..Len(glyphs) |->
                header_glyph_ops(o, glyphs[k], base_x + cursor_offset(glyphs, k),
                                 base_y,
                                 IF o.style.bg # "none"
                                 THEN [fg |-> "none", bg |-> o.style.bg,
                                       bold |-> FALSE, dim |-> FALSE]
                                 ELSE DefaultStyle)]),
            {base_x + cursor_offset(glyphs, k + 1) : k \in 1..Len(glyphs)},
            FALSE)

\* impl Resolve for Header
Header_resolve(o, f) ==
    IF ~contains(o.frames, f) THEN Resolved(<<>>, FALSE)
    ELSE Header_draw(o, evaluate(o.position.x, f), evaluate(o.position.y, f),
                     header_glyphs(o.text))

\* ------------------------------------------------------------------------
\* engine/objects/arrow.rs
\* ------------------------------------------------------------------------

\* (right, left, down, up)
HEAD_FAMILIES ==
    <<<<"tri_right", "tri_left", "tri_down", "tri_up">>,
      <<">", "<", "v", "^">>,
      <<"arrow_right", "arrow_left", "arrow_down", "arrow_up">>>>

\* The member `side` of the first family that holds ch, or ch itself.
head_char(ch, side) ==
    LET found == {k \in 1..Len(HEAD_FAMILIES) :
                    \E m \in 1..4 : HEAD_FAMILIES[k][m] = ch}
    IN IF found = {} THEN ch
       ELSE HEAD_FAMILIES[CHOOSE k \in found : \A j \in found : k <= j][side]

\* Mutant: the head character is used as given, whatever the direction.
head_char_h_as_given(ch, positive_dir) == ch

head_char_h(ch, positive_dir) == head_char(ch, IF positive_dir THEN 1 ELSE 2)

head_char_v(ch, positive_dir) == head_char(ch, IF positive_dir THEN 3 ELSE 4)

body_char_vertical(ch) ==
    IF ch = "box_h" THEN "box_v"
    ELSE IF ch = "box_double_h" THEN "box_double_v"
    ELSE ch

\* Mutant: the sign of a difference is lost.
signum_unsigned(n) == IF n = 0 THEN 0 ELSE 1

signum(n) == IF n > 0 THEN 1 ELSE IF n < 0 THEN 0 - 1 ELSE 0

Arrow(x1, y1, x2, y2, head, head_ch, body_ch, style, frames_range, z_order) ==
    [type |-> "arrow", x1 |-> x1, y1 |-> y1, x2 |-> x2, y2 |-> y2, head |-> head,
     head_ch |-> head_ch, body_ch |-> body_ch, style |-> style,
     frames |-> frames_range, z_order |-> z_order]

\* The pushes of Arrow's resolve, given the end points it evaluated.
Arrow_draw(o, x1, y1, x2, y2) ==
    LET dx_abs == IF x2 >= x1 THEN x2 - x1 ELSE x1 - x2
        dy_abs == IF y2 >= y1 THEN y2 - y1 ELSE y1 - y2
        sx == signum(x2 - x1)
        sy == signum(y2 - y1)
        emit(x, y, ch) ==
           IF x >= 0 /\ y >= 0
           THEN <<DrawOp(x, y, ch, o.style, o.z_order)>>
           ELSE <<>>
        h_head == IF o.head_ch = None
                  THEN (IF sx >= 0 THEN "tri_right" ELSE "tri_left")
                  ELSE head_char_h(o.head_ch[1], sx >= 0)
        v_head == IF o.head_ch = None
                  THEN (IF sy >= 0 THEN "tri_down" ELSE "tri_up")
                  ELSE head_char_v(o.head_ch[1], sy >= 0)
        h_body == IF o.body_ch = None THEN "box_h" ELSE o.body_ch[1]
        v_body == IF o.body_ch = None THEN "box_v"
                  ELSE body_char_vertical(o.body_ch[1])
        \* `while x != x2 { emit(x, y, h_body); x += sx }` from x = xa
        h_run(xa, y) ==
           Flatten([i \in 1..(IF x2 >= xa THEN x2 - xa ELSE xa - x2) |->
                       emit(xa + (i - 1) * sx, y, h_body)])
        \* `while y != y2 { emit(x, y, v_body); y += sy }` from y = ya
        v_run(x, ya) ==
           Flatten([j \in 1..(IF y2 >= ya THEN y2 - ya ELSE ya - y2) |->
                       emit(x, ya + (j - 1) * sy, v_body)])
        h_first_corner ==
           IF sx = 1 /\ sy = 1 THEN "box_dl"
           ELSE IF sx = 1 /\ sy = 0 - 1 THEN "box_ul"
           ELSE IF sx = 0 - 1 /\ sy = 1 THEN "box_dr"
           ELSE "box_ur"
        v_first_corner ==
           IF sx = 1 /\ sy = 1 THEN "box_ur"
           ELSE IF sx = 1 /\ sy = 0 - 1 THEN "box_dr"
           ELSE IF sx = 0 - 1 /\ sy = 1 THEN "box_ul"
           ELSE "box_dl"
    IN Resolved(
           IF dx_abs = 0 /\ dy_abs = 0 THEN emit(x1, y1, "*")
           ELSE IF dx_abs = 0
           THEN v_run(x1, y1)
                \o emit(x1, y2, IF o.head THEN v_head ELSE v_body)
           ELSE IF dy_abs = 0
           THEN h_run(x1, y1)
                \o emit(x2, y1, IF o.head THEN h_head ELSE h_body)
           ELSE IF dx_abs >= dy_abs
           THEN h_run(x1, y1)
                \o emit(x2, y1, h_first_corner)
                \o v_run(x2, y1 + sy)
                \o emit(x2, y2, IF o.head THEN v_head ELSE v_body)
           ELSE v_run(x1, y1)
                \o emit(x1, y2, v_first_corner)
                \o h_run(x1 + sx, y2)
                \o emit(x2, y2, IF o.head THEN h_head ELSE h_body),
           FALSE)

\* Mutant: the arrow is drawn from its end to its start.
Arrow_resolve_from_end(o, f) ==
    IF ~contains(o.frames, f) THEN Resolved(<<>>, FALSE)
    ELSE Arrow_draw(o, evaluate(o.x2, f), evaluate(o.y2, f), evaluate(o.x1, f),
                    evaluate(o.y1, f))

\* impl Resolve for Arrow
Arrow_resolve(o, f) ==
    IF ~contains(o.frames, f) THEN Resolved(<<>>, FALSE)
    ELSE Arrow_draw(o, evaluate(o.x1, f), evaluate(o.y1, f), evaluate(o.x2, f),
                    evaluate(o.y2, f))

\* ------------------------------------------------------------------------
\* engine/objects/table.rs
\* ------------------------------------------------------------------------

\* The `while pos < chars.len()` loop of Table's wrap_text_line, from
\* position pos on: the rows it pushes.
RECURSIVE table_wrap_rows(_, _, _)
table_wrap_rows(chars, w, pos) ==
    IF pos >= Len(chars) THEN <<>>
    ELSE LET remaining == SubSeq(chars, pos + 1, Len(chars))
         IN IF Len(remaining) <= w
            THEN <<padded_row(remaining, 0, w)>>
            ELSE LET sp == rposition_space(SubSeq(remaining, 1, w))
                     row_len == IF sp >= 0 THEN sp ELSE w
                     advance == IF sp >= 0 THEN sp + 1 ELSE w
                 IN <<padded_row(SubSeq(remaining, 1, row_len), 0, w)>>
                    \o table_wrap_rows(chars, w, skip_spaces(chars, pos + advance))

\* wrap_text_line of table.rs
table_wrap_text_line(line, w) ==
    IF line = <<>> \/ w = 0 THEN <<<<>>>>
    ELSE table_wrap_rows(line, w, 0)

\* wrap_cell_content
wrap_cell_content(content, w) ==
    IF w = 0 THEN <<<<>>>>
    ELSE LET lines == split(content)
         IN Flatten([k \in 1..Len(lines) |-> table_wrap_text_line(lines[k], w)])

\* TableCell { content, style }
TableCell(content, style) == [content |-> content, style |-> style]

\* A column fraction: the f64 nearest to num / den, for 0 < num <= den.
Fraction(num, den) == F64Ratio(num, den)

\* 0.5
Half == Zeros(FracLimbs - 1) \o <<LimbBase \div 2>>

\* x.floor() as usize, for a non-negative f64 below 2^30
Floor(x) == Limb(x, FracLimbs + 1) + LimbBase * Limb(x, FracLimbs + 2)

Table(position, width, height, col_widths, rows, cells, header_bold, borders, style, frames_range, z_order) ==
    [type |-> "table", position |-> position, width |-> width, height |-> height,
     col_widths |-> col_widths, rows |-> rows, cells |-> cells,
     header_bold |-> header_bold, borders |-> borders, style |-> style,
     frames |-> frames_range, z_order |-> z_order]

\* TableCell::default()
TableCell_default == TableCell(<<>>, None)

\* Vec::resize_with: the first n elements of v, filled up with `fill`.
resize_with(v, n, fill) == [i \in 1..n |-> IF i <= Len(v) THEN v[i] ELSE fill]

\* Vec::insert at the 0-based index idx <= Len(v)
insert(v, idx, element) == SubSeq(v, 1, idx) \o <<element>> \o SubSeq(v, idx + 1, Len(v))

\* Vec::remove at the 0-based index idx < Len(v)
remove(v, idx) == SubSeq(v, 1, idx) \o SubSeq(v, idx + 2, Len(v))

\* Table::normalize_cells
normalize_cells(t) ==
    [t EXCEPT !.cells =
        [r \in 1..t.rows |->
            resize_with(IF r <= Len(t.cells) THEN t.cells[r] ELSE <<>>,
                        Len(t.col_widths), TableCell_default)]]

\* Every fraction of col_widths times `scale`.
scaled(col_widths, scale) == [k \in 1..Len(col_widths) |-> F64Mul(col_widths[k], scale)]

\* table_add_column without `*w *= scale`: the new fraction goes in and the
\* others stay.
table_add_column_unscaled(t, insert_idx) ==
    LET n == Len(t.col_widths)
        at == Min(insert_idx, n)
    IN normalize_cells(
        [t EXCEPT !.col_widths = insert(t.col_widths, at, F64Ratio(1, n + 1)),
                  !.cells = [r \in 1..Len(t.cells) |->
                                insert(IF Len(t.cells[r]) < n
                                       THEN resize_with(t.cells[r], n, TableCell_default)
                                       ELSE t.cells[r],
                                       at, TableCell_default)]])

\* table_add_column: n as f64 / new_n as f64 is 0.0 for a table without columns.
table_add_column(t, insert_idx) ==
    LET n == Len(t.col_widths)
        new_n == n + 1
        new_frac == F64Ratio(1, new_n)
        scale == IF n = 0 THEN <<>> ELSE F64Div(n, new_n)
        at == Min(insert_idx, n)
    IN normalize_cells(
        [t EXCEPT !.col_widths = insert(scaled(t.col_widths, scale), at, new_frac),
                  !.cells = [r \in 1..Len(t.cells) |->
                                insert(IF Len(t.cells[r]) < n
                                       THEN resize_with(t.cells[r], n, TableCell_default)
                                       ELSE t.cells[r],
                                       at, TableCell_default)]])

\* `remaining > 0.001` for remaining = 1.0 - removed_frac, which is negative
\* when removed_frac is above 1.0.
remaining_above_threshold(removed_frac) ==
    /\ ~LtLimbs(One, removed_frac)
    /\ LtLimbs(F64Div(1, 1000), F64Sub(One, removed_frac))

\* The cells of table_remove_column's last loop.
cells_without_column(cells, col_idx) ==
    [r \in 1..Len(cells) |->
        IF col_idx < Len(cells[r]) THEN remove(cells[r], col_idx) ELSE cells[r]]

\* table_remove_column without the rescaling: the fractions left stay.
table_remove_column_unscaled(t, col_idx) ==
    IF Len(t.col_widths) <= 1 \/ col_idx >= Len(t.col_widths) THEN t
    ELSE [t EXCEPT !.col_widths = remove(t.col_widths, col_idx),
                   !.cells = cells_without_column(t.cells, col_idx)]

\* table_remove_column
table_remove_column(t, col_idx) ==
    LET n == Len(t.col_widths)
        removed_frac == t.col_widths[col_idx + 1]
        left == remove(t.col_widths, col_idx)
    IN IF n <= 1 \/ col_idx >= n THEN t
       ELSE [t EXCEPT
                !.col_widths =
                    IF remaining_above_threshold(removed_frac)
                    THEN scaled(left, F64Recip(F64Sub(One, removed_frac)))
                    ELSE [k \in 1..Len(left) |-> F64Ratio(1, Len(left))],
                !.cells = cells_without_column(t.cells, col_idx)]

\* Mutant: a column takes its share also when less than that is unassigned.
col_content_widths_uncapped(t, avail, i) ==
    LET raw(k) == Floor(RoundToF64(MulLimbs(t.col_widths[k], avail, 1, 0), FALSE))
    IN [k \in 1..i |->
            IF k = Len(t.col_widths)
            THEN saturating_sub(avail, SumSeq([j \in 1..(k - 1) |-> raw(j)]))
            ELSE raw(k)]

\* The first loop of Table::layout: the content widths of the first i columns.
RECURSIVE col_content_widths(_, _, _)
col_content_widths(t, avail, i) ==
    IF i = 0 THEN <<>>
    ELSE LET before == col_content_widths(t, avail, i - 1)
             used == SumSeq(before)
             frac == t.col_widths[i]
             \* (avail as f64 * frac).floor() as usize
             raw == Floor(RoundToF64(MulLimbs(frac, avail, 1, 0), FALSE))
             w == IF i = Len(t.col_widths) THEN saturating_sub(avail, used)
                  ELSE Min(raw, saturating_sub(avail, used))
         IN Append(before, w)

\* Table::layout: the content width of every column and the x offset of its
\* content from the table's left edge.
layout(t, total_width) ==
    LET ncols == Len(t.col_widths)
        sep == IF t.borders THEN 1 ELSE 0
        avail == IF t.borders THEN saturating_sub(total_width, ncols + 1)
                 ELSE total_width
        widths == col_content_widths(t, avail, ncols)
    IN IF ncols = 0 \/ total_width = 0 THEN [widths |-> <<>>, starts |-> <<>>]
       ELSE [widths |-> widths,
             starts |-> [i \in 1..ncols |->
                            sep + SumSeq([k \in 1..(i - 1) |-> widths[k] + sep])]]

\* self.cells.get(row_idx).and_then(|r| r.get(col_idx)); rows and columns
\* count from 1 here.
cell_at(t, row_idx, col_idx) ==
    IF row_idx <= Len(t.cells) /\ col_idx <= Len(t.cells[row_idx])
    THEN Some(t.cells[row_idx][col_idx])
    ELSE None

\* .map(|c| c.content.as_str()).unwrap_or("")
cell_content(t, row_idx, col_idx) ==
    IF cell_at(t, row_idx, col_idx) = None THEN <<>>
    ELSE cell_at(t, row_idx, col_idx)[1].content

\* Mutant: the lines of the first cell of the row only.
row_height_of_first_cell(t, row_idx, col_content_width) ==
    Len(wrap_cell_content(cell_content(t, row_idx, 1), col_content_width[1]))

\* Table::row_height
row_height(t, row_idx, col_content_width) ==
    LET line_counts ==
            {Len(wrap_cell_content(cell_content(t, row_idx, c), col_content_width[c])) :
                c \in {k \in 1..Len(col_content_width) : col_content_width[k] # 0}}
    IN IF line_counts = {} THEN 1
       ELSE Max(1, CHOOSE n \in line_counts : \A m \in line_counts : m <= n)

\* The closure cell_style of resolve_internal
cell_style(t, row_idx, col_idx, highlighted_col, selected_cells, cell_mode) ==
    LET own == IF cell_at(t, row_idx, col_idx) = None THEN None
               ELSE cell_at(t, row_idx, col_idx)[1].style
        base == IF own = None THEN t.style ELSE own[1]
        is_header == row_idx = 1 /\ t.header_bold
        is_selected == <<row_idx, col_idx>> \in selected_cells
        in_highlighted_col == highlighted_col = Some(col_idx)
    IN IF in_highlighted_col \/ is_selected
       THEN [fg |-> "red", bg |-> base.bg, bold |-> is_header \/ base.bold,
             dim |-> FALSE]
       ELSE IF cell_mode
       THEN [fg |-> "white", bg |-> "none", bold |-> FALSE, dim |-> TRUE]
       ELSE IF is_header
       THEN [fg |-> base.fg, bg |-> base.bg, bold |-> TRUE, dim |-> base.dim]
       ELSE base

\* The closure border_style of resolve_internal
border_style(t, col_idx_maybe, highlighted_col, cell_mode) ==
    LET in_highlighted == /\ highlighted_col # None
                          /\ col_idx_maybe # None
                          /\ col_idx_maybe = highlighted_col
    IN IF cell_mode /\ ~in_highlighted
       THEN [fg |-> "white", bg |-> "none", bold |-> FALSE, dim |-> TRUE]
       ELSE IF in_highlighted
       THEN [fg |-> "red", bg |-> "none", bold |-> FALSE, dim |-> FALSE]
       ELSE t.style

\* The border and content pushes of resolve_internal, given the layout and
\* the row heights it computed.
table_ops(t, base_x, base_y, col_widths, col_starts, row_heights, highlighted_col, selected_cells, cell_mode) ==
    LET ncols == Len(t.col_widths)
        nrows == t.rows
        sep == IF t.borders THEN 1 ELSE 0
        \* cur_y when row r is reached, and after the loop for r = nrows + 1
        cur_y(r) == sep + SumSeq([k \in 1..(r - 1) |-> row_heights[k] + sep])
        row_y_offsets == [r \in 1..nrows |-> cur_y(r)]
        z == t.z_order
        bstyle(col_idx_maybe) ==
            border_style(t, col_idx_maybe, highlighted_col, cell_mode)
        \* bx when column ci of a border line is reached
        bx_at(ci) == base_x + SumSeq([k \in 1..(ci - 1) |-> 1 + col_widths[k]])
        border_line(border_row) ==
            LET by == IF border_row = 0 THEN base_y
                      ELSE base_y + row_y_offsets[border_row]
                                + row_heights[border_row]
            IN Flatten([ci \in 1..ncols |->
                    <<DrawOp(bx_at(ci), by,
                             IF border_row = 0
                             THEN (IF ci = 1 THEN "box_dr" ELSE "box_dh")
                             ELSE IF border_row = nrows
                             THEN (IF ci = 1 THEN "box_ur" ELSE "box_uh")
                             ELSE (IF ci = 1 THEN "box_vr" ELSE "box_vh"),
                             bstyle(IF ci > 1 THEN Some(ci) ELSE None), z)>>
                    \o [d \in 1..col_widths[ci] |->
                            DrawOp(bx_at(ci) + d, by, "box_h", bstyle(Some(ci)), z)]])
               \o <<DrawOp(bx_at(ncols + 1), by,
                           IF border_row = 0 THEN "box_dl"
                           ELSE IF border_row = nrows THEN "box_ul"
                           ELSE "box_vl",
                           bstyle(Some(ncols)), z)>>
        bars(row_idx) ==
            Flatten([line \in 1..row_heights[row_idx] |->
                <<DrawOp(base_x, base_y + row_y_offsets[row_idx] + (line - 1),
                         "box_v", bstyle(None), z)>>
                \o [ci \in 1..ncols |->
                        DrawOp(base_x + col_starts[ci] + col_widths[ci],
                               base_y + row_y_offsets[row_idx] + (line - 1),
                               "box_v", bstyle(Some(ci)), z)]])
        border_ops ==
            IF t.borders
            THEN Flatten([b \in 1..(nrows + 1) |-> border_line(b - 1)])
                 \o Flatten([r \in 1..nrows |-> bars(r)])
            ELSE <<>>
        cell_ops(row_idx, col_idx) ==
            LET cw == col_widths[col_idx]
                st == cell_style(t, row_idx, col_idx, highlighted_col,
                                 selected_cells, cell_mode)
                wrapped == wrap_cell_content(cell_content(t, row_idx, col_idx), cw)
            IN IF cw = 0 THEN <<>>
               ELSE Flatten([line \in 1..Len(wrapped) |->
                        Flatten([xi \in 1..Len(wrapped[line]) |->
                            IF wrapped[line][xi] # " " \/ st.bg # "none"
                            THEN <<DrawOp(base_x + col_starts[col_idx] + (xi - 1),
                                          base_y + row_y_offsets[row_idx] + (line - 1),
                                          wrapped[line][xi], st, z)>>
                            ELSE <<>>])])
        content_ops ==
            Flatten([r \in 1..nrows |->
                Flatten([c \in 1..ncols |-> cell_ops(r, c)])])
        sums ==
            {cur_y(r) : r \in 1..(nrows + 1)}
            \cup {base_y + row_y_offsets[r] : r \in 1..nrows}
            \cup {base_x + col_starts[c] :
                    c \in {k \in 1..ncols : col_widths[k] # 0}}
    IN Checked(border_ops \o content_ops, sums, FALSE)

\* resolve_internal from the layout on: the row heights, then the pushes.
table_rows(t, base_x, base_y, lay, highlighted_col, selected_cells, cell_mode) ==
    table_ops(t, base_x, base_y, lay.widths, lay.starts,
              [r \in 1..t.rows |-> row_height(t, r, lay.widths)],
              highlighted_col, selected_cells, cell_mode)

\* resolve_internal from the evaluated position and width on.
table_draw(t, base_x, base_y, total_width, highlighted_col, selected_cells, cell_mode) ==
    IF total_width = 0 \/ Len(t.col_widths) = 0 \/ t.rows = 0
    THEN Resolved(<<>>, FALSE)
    ELSE table_rows(t, base_x, base_y, layout(t, total_width), highlighted_col,
                    selected_cells, cell_mode)

\* Table::resolve_internal
resolve_internal(t, f, highlighted_col, selected_cells, cell_mode) ==
    IF ~contains(t.frames, f) THEN Resolved(<<>>, FALSE)
    ELSE table_draw(t, evaluate(t.position.x, f), evaluate(t.position.y, f),
                    evaluate(t.width, f), highlighted_col, selected_cells,
                    cell_mode)

\* impl Resolve for Table
Table_resolve(o, f) == resolve_internal(o, f, None, {}, FALSE)

\* ------------------------------------------------------------------------
\* engine/objects/mod.rs
\* ------------------------------------------------------------------------

\* impl Resolve for SceneObject
resolve(o, f) ==
    CASE o.type = "label" -> Label_resolve(o, f)
      [] o.type = "hline" -> HLine_resolve(o, f)
      [] o.type = "rect" -> Rect_resolve(o, f)
      [] o.type = "header" -> Header_resolve(o, f)
      [] o.type = "group" -> Group_resolve(o, f)
      [] o.type = "arrow" -> Arrow_resolve(o, f)
      [] o.type = "table" -> Table_resolve(o, f)

\* ------------------------------------------------------------------------
\* renderer/mod.rs
\* ------------------------------------------------------------------------

\* vec![vec![Cell::default(); w]; h]
BlankGrid(w, h) == [y \in 1..h |-> [x \in 1..w |-> DefaultCell]]

\* Mutant: the sort is left out, ops are painted in emission order.
sort_by_key_omitted(scene_ops) == scene_ops

\* ops.sort_by_key(|op| op.z_order): a stable sort, ascending.  An op lands
\* after every op of smaller key and every earlier op of equal key.
sort_by_key(scene_ops) ==
    LET n == Len(scene_ops)
        place(i) ==
            Cardinality({j \in 1..n :
                \/ scene_ops[j].z_order < scene_ops[i].z_order
                \/ (scene_ops[j].z_order = scene_ops[i].z_order /\ j < i)}) + 1
    IN [k \in 1..n |-> scene_ops[CHOOSE i \in 1..n : place(i) = k]]

\* Mutant: an op outside the grid is clamped to the nearest edge cell
\* instead of being dropped.
PaintOp_clamped(g, op, w, h) ==
    IF w > 0 /\ h > 0
    THEN [g EXCEPT ![Min(op.y, h - 1) + 1][Min(op.x, w - 1) + 1] =
                        [ch |-> op.ch, style |-> op.style]]
    ELSE g

\* The body of rasterize's loop: paint one op when it is inside the grid.
PaintOp(g, op, w, h) ==
    IF op.x < w /\ op.y < h
    THEN [g EXCEPT ![op.y + 1][op.x + 1] = [ch |-> op.ch, style |-> op.style]]
    ELSE g

\* rasterize's loop `for op in ops`: the ops painted in order, the first half
\* of the list and then the second.  The test on `painted` always holds: it has
\* the first half painted before the second is begun.
RECURSIVE PaintAll(_, _, _, _)
PaintAll(g, ops_sorted, w, h) ==
    IF Len(ops_sorted) = 0 THEN g
    ELSE IF Len(ops_sorted) = 1 THEN PaintOp(g, ops_sorted[1], w, h)
    ELSE LET half == Len(ops_sorted) \div 2
             painted == PaintAll(g, SubSeq(ops_sorted, 1, half), w, h)
         IN IF Len(painted) >= 0
            THEN PaintAll(painted, SubSeq(ops_sorted, half + 1, Len(ops_sorted)), w, h)
            ELSE painted

\* Renderer::rasterize
rasterize(scene, c) ==
    PaintAll(BlankGrid(c.width, c.height), sort_by_key(scene.ops), c.width, c.height)

\* Mutant: cells are compared by character only, the style is ignored.
RECURSIVE diff_row_ch_only(_, _, _, _)
diff_row_ch_only(prev_row, next_row, y, x) ==
    IF x >= Min(Len(prev_row), Len(next_row)) THEN <<>>
    ELSE (IF prev_row[x + 1].ch # next_row[x + 1].ch
          THEN <<CellChange(x, y, next_row[x + 1])>>
          ELSE <<>>) \o diff_row_ch_only(prev_row, next_row, y, x + 1)

\* The inner loop of Renderer::diff over one pair of rows, from column x on.
RECURSIVE diff_row(_, _, _, _)
diff_row(prev_row, next_row, y, x) ==
    IF x >= Min(Len(prev_row), Len(next_row)) THEN <<>>
    ELSE (IF prev_row[x + 1] # next_row[x + 1]
          THEN <<CellChange(x, y, next_row[x + 1])>>
          ELSE <<>>) \o diff_row(prev_row, next_row, y, x + 1)

RECURSIVE diff_rows(_, _, _)
diff_rows(prev, next, y) ==
    IF y >= Min(Len(prev), Len(next)) THEN <<>>
    ELSE diff_row(prev[y + 1], next[y + 1], y, 0) \o diff_rows(prev, next, y + 1)

\* Mutant: every cell of the next grid is listed, changed or not.
diff_every_cell(prev, next) ==
    diff_rows([y \in 1..Len(prev) |-> [x \in 1..Len(prev[y]) |->
                    [ch |-> "?", style |-> DefaultStyle]]], next, 0)

\* Renderer::diff
diff(prev, next) == diff_rows(prev, next, 0)

\* Mutant: prev_grid is never remembered, every frame is encoded Full.
RECURSIVE render_loop_no_prev(_, _, _, _)
render_loop_no_prev(ss, c, prev_grid, has_prev) ==
    IF ss = <<>> THEN <<>>
    ELSE <<FrameFull(rasterize(Head(ss), c))>>
            \o render_loop_no_prev(Tail(ss), c, prev_grid, has_prev)

\* The loop of Renderer::render; has_prev is prev_grid.is_some().
RECURSIVE render_loop(_, _, _, _)
render_loop(ss, c, prev_grid, has_prev) ==
    IF ss = <<>> THEN <<>>
    ELSE LET g == rasterize(Head(ss), c)
             encoded == IF has_prev THEN FrameDiff(diff(prev_grid, g)) ELSE FrameFull(g)
         IN <<encoded>> \o render_loop(Tail(ss), c, g, TRUE)

\* Renderer::render: the frames of the PlayablePresentation.
render(ss, c) == render_loop(ss, c, <<>>, FALSE)

\* ------------------------------------------------------------------------
\* player/mod.rs
\* ------------------------------------------------------------------------

\* The `for change in changes` loop of apply_frame: a cell ends up holding
\* the cell of the last change written to it.
ApplyChanges(g, changes) ==
    [row \in 1..Len(g) |-> [col \in 1..Len(g[row]) |->
        LET hits == {k \in 1..Len(changes) :
                        /\ changes[k].y = row - 1
                        /\ changes[k].x = col - 1
                        /\ changes[k].x < Len(g[1])}
        IN IF hits = {} THEN g[row][col]
           ELSE changes[CHOOSE k \in hits : \A j \in hits : j <= k].cell]]

\* Player::apply_frame
apply_frame(g, fr) ==
    IF fr.type = "full" THEN fr.cells ELSE ApplyChanges(g, fr.changes)

\* ------------------------------------------------------------------------
\* engine/mod.rs and main.rs
\* ------------------------------------------------------------------------

\* SourcePresentation { width, height, frame_count, objects }
SourcePresentation(width, height, frame_count, objects) ==
    [width |-> width, height |-> height, frame_count |-> frame_count,
     objects |-> objects]

\* TerminalContract { width, height }
TerminalContract(width, height) == [width |-> width, height |-> height]

\* Mutant: what the object pushes goes in front of the vector.
resolve_into_front(obj, f, v) == resolve(obj, f).ops \o v

\* obj.resolve(frame, &mut ops): the vector v after the call.
resolve_into(obj, f, v) == v \o resolve(obj, f).ops

\* Engine::resolve_frame as a function of (source, frame): a fresh vector that
\* every object, in list order, resolves into.
resolve_frame(src, f) ==
    ResolvedScene(src.width, src.height,
                  Flatten([k \in 1..Len(src.objects) |-> resolve(src.objects[k], f).ops]))

\* Engine::compile as a function of the source: one scene per frame index.
compile(src) == [i \in 1..src.frame_count |-> resolve_frame(src, i - 1)]

\* Player::rebuild_grid's loop `for i in 0..=target { self.apply_frame(i) }`
\* from frame i on.
RECURSIVE apply_frames(_, _, _, _)
apply_frames(g, frs, i, target) ==
    IF i > target THEN g
    ELSE apply_frames(apply_frame(g, frs[i + 1]), frs, i + 1, target)

\* Player::rebuild_grid
rebuild_grid(c, frs, target) ==
    apply_frames(BlankGrid(c.width, c.height), frs, 0, target)

\* ------------------------------------------------------------------------
\* Bounded inputs of the renderer: scene lists drawn op by op.
\* ------------------------------------------------------------------------

\* Longest scene list handed to Renderer::render.
MaxScenes == 2
\* Most DrawOps in one scene list, over all its scenes.
MaxOps == 2

\* The terminal is two cells wide and one high: (2, 0) lies right of the
\* grid and (0, 1) below it.
Contracts == {TerminalContract(2, 1)}

OpPositions == {<<0, 0>>, <<1, 0>>, <<2, 0>>, <<0, 1>>}

OpUniverse ==
    {DrawOp(p[1], p[2], "a", s, z) :
        p \in OpPositions, s \in {DefaultStyle, BoldStyle}, z \in {-1, 1}}

\* The scene list whose scene i holds the next lens[i] ops of flat.
SplitOps(flat, lens, c) ==
    [i \in 1..Len(lens) |->
        ResolvedScene(c.width, c.height,
                      SubSeq(flat, SumSeq(SubSeq(lens, 1, i - 1)) + 1,
                             SumSeq(SubSeq(lens, 1, i))))]

\* ------------------------------------------------------------------------
\* Bounded inputs of the engine: short object lists over a few objects of
\* every variant.
\* ------------------------------------------------------------------------

\* Most objects in a source presentation.
MaxObjects == 2
\* Greatest frame_count of a source presentation.
MaxFrameCount == 2

\* The whole-number coordinate n.
At(n) == Fixed(2 * n)

ObjectUniverse ==
    {Label(<<"a", "b", " ", "c">>, Position(At(0), At(0)), At(2), At(0), TRUE, None,
           DefaultStyle, FrameRange(0, 1), 0),
     HLine(At(2), Animated(0, 2, 0, 2), At(4), "box_h", DefaultStyle,
           FrameRange(1, 2), 1),
     Rect(Position(At(0), At(0)), At(0), At(1), DefaultStyle, FrameRange(0, 2), 0,
          Some(<<"T">>)),
     Rect(Position(At(1), At(0)), At(4), At(2), BoldStyle, FrameRange(1, 2), I32Max,
          Some(<<"T">>)),
     Header(<<"i">>, Position(At(1), At(0)), DefaultStyle, FrameRange(0, 2), 1, "#"),
     Header(<<"i">>, Position(At(U16Max - 1), At(0)), DefaultStyle,
            FrameRange(0, 1), 0, "#"),
     Group(<<0, 1>>, FrameRange(0, 2), 0),
     Arrow(At(0), At(0), At(3), At(2), TRUE, None, None, DefaultStyle,
           FrameRange(0, 1), 2),
     Table(Position(At(0), At(0)), At(6), At(0),
           <<Half, Half>>, 1,
           <<<<TableCell(<<"a">>, None), TableCell(<<"b", "c">>, None)>>>>,
           TRUE, TRUE, DefaultStyle, FrameRange(1, 2), 0)}

\* ------------------------------------------------------------------------
\* The pipeline as a state machine
\* ------------------------------------------------------------------------

\* No table is under edit.
TableIdle == table = None /\ edit_log = <<>>

\* No loop is running.
LoopIdle == loop = None

\* No editor is open.
EditorIdle == state = None /\ history = <<>>

\* The most column edits in a row.
MaxEdits == 2

\* No coordinate is under evaluation.
CoordIdle == coord = Fixed(0) /\ value = 0

\* Nothing is being compiled: the scene list is given.
EngineIdle ==
    /\ overflow_checks = FALSE
    /\ source = SourcePresentation(0, 0, 0, <<>>)
    /\ next_object = 1
    /\ ops = <<>>

RenderIdle ==
    /\ scenes = <<>>
    /\ contract = TerminalContract(0, 0)
    /\ frames = <<>>
    /\ grid = <<>>
    /\ current_frame = 0

\* Engine::resolve_frame, one turn of `for obj in &source.objects`: the next
\* object resolves into ops.  An overflowing addition or subtraction panics
\* in a build that checks overflow and wraps in one that does not.
ResolveObject ==
    /\ pc = "compile"
    /\ frame < source.frame_count
    /\ next_object <= Len(source.objects)
    /\ IF resolve(source.objects[next_object], frame).overflow /\ overflow_checks
       THEN /\ pc' = "overflow_panic"
            /\ UNCHANGED <<next_object, ops>>
       ELSE /\ pc' = pc
            /\ ops' = resolve_into(source.objects[next_object], frame, ops)
            /\ next_object' = next_object + 1
    /\ UNCHANGED <<overflow_checks, source, frame, render_vars, coord_vars, table_vars,
                   loop_vars, editor_vars>>

\* Mutant: the op vector is shared by the frames instead of being created by
\* every resolve_frame call.
FinishFrame_sharing_ops ==
    /\ pc = "compile"
    /\ frame < source.frame_count
    /\ next_object > Len(source.objects)
    /\ scenes' = Append(scenes, ResolvedScene(source.width, source.height, ops))
    /\ frame' = frame + 1
    /\ next_object' = 1
    /\ UNCHANGED <<pc, overflow_checks, source, ops, contract, frames, grid,
                   current_frame, coord_vars, table_vars,
                   loop_vars, editor_vars>>

\* Engine::resolve_frame returns its scene and Engine::compile collects it.
FinishFrame ==
    /\ pc = "compile"
    /\ frame < source.frame_count
    /\ next_object > Len(source.objects)
    /\ scenes' = Append(scenes, ResolvedScene(source.width, source.height, ops))
    /\ frame' = frame + 1
    /\ next_object' = 1
    /\ ops' = <<>>
    /\ UNCHANGED <<pc, overflow_checks, source, contract, frames, grid,
                   current_frame, coord_vars, table_vars,
                   loop_vars, editor_vars>>

\* Engine::compile returns; main.rs compile() builds the contract from the
\* source's width and height.
CompileDone ==
    /\ pc = "compile"
    /\ frame >= source.frame_count
    /\ contract' = TerminalContract(source.width, source.height)
    /\ pc' = "compiled"
    /\ UNCHANGED <<frame, engine_vars, scenes, frames, grid, current_frame,
                   coord_vars, table_vars,
                   loop_vars, editor_vars>>

\* main.rs compile(): Renderer::render(&scenes, contract)
Render ==
    /\ pc = "compiled"
    /\ frames' = render(scenes, contract)
    /\ pc' = "rendered"
    /\ UNCHANGED <<frame, engine_vars, scenes, contract, grid, current_frame,
                   coord_vars, table_vars,
                   loop_vars, editor_vars>>

\* Player::new: a blank grid of the contract's size, at frame 0.
PlayerNew ==
    /\ pc = "rendered"
    /\ grid' = BlankGrid(contract.width, contract.height)
    /\ current_frame' = 0
    /\ pc' = "player"
    /\ UNCHANGED <<frame, engine_vars, scenes, contract, frames, coord_vars, table_vars,
                   loop_vars, editor_vars>>

\* Player::run_loop, before the event loop: self.apply_frame(0), which indexes
\* presentation.frames[0] and so panics on a presentation without frames.
PlayerStart ==
    /\ pc = "player"
    /\ IF Len(frames) = 0
       THEN /\ pc' = "index_panic"
            /\ UNCHANGED grid
       ELSE /\ pc' = "playing"
            /\ grid' = apply_frame(grid, frames[1])
    /\ UNCHANGED <<frame, engine_vars, scenes, contract, frames, current_frame,
                   coord_vars, table_vars,
                   loop_vars, editor_vars>>

\* Player::run_loop, Right | Char(' ') | Enter
KeyNext ==
    /\ pc = "playing"
    /\ current_frame < saturating_sub(Len(frames), 1)
    /\ current_frame' = current_frame + 1
    /\ grid' = apply_frame(grid, frames[current_frame' + 1])
    /\ UNCHANGED <<pc, frame, engine_vars, scenes, contract, frames, coord_vars, table_vars,
                   loop_vars, editor_vars>>

\* Mutant: Left moves the frame counter and leaves the grid as it is.
KeyLeft_keeps_grid ==
    /\ pc = "playing"
    /\ current_frame > 0
    /\ current_frame' = current_frame - 1
    /\ UNCHANGED <<pc, frame, engine_vars, scenes, contract, frames, grid, coord_vars,
                   table_vars, loop_vars, editor_vars>>

\* Player::run_loop, Left
KeyLeft ==
    /\ pc = "playing"
    /\ current_frame > 0
    /\ current_frame' = current_frame - 1
    /\ grid' = rebuild_grid(contract, frames, current_frame')
    /\ UNCHANGED <<pc, frame, engine_vars, scenes, contract, frames, coord_vars, table_vars,
                   loop_vars, editor_vars>>

\* Player::run_loop, Home
KeyHome ==
    /\ pc = "playing"
    /\ current_frame' = 0
    /\ grid' = rebuild_grid(contract, frames, 0)
    /\ UNCHANGED <<pc, frame, engine_vars, scenes, contract, frames, coord_vars, table_vars,
                   loop_vars, editor_vars>>

\* Player::run_loop, End
KeyEnd ==
    /\ pc = "playing"
    /\ current_frame' = saturating_sub(Len(frames), 1)
    /\ grid' = rebuild_grid(contract, frames, current_frame')
    /\ UNCHANGED <<pc, frame, engine_vars, scenes, contract, frames, coord_vars, table_vars,
                   loop_vars, editor_vars>>

RenderNext ==
    Render \/ PlayerNew \/ PlayerStart \/ KeyNext \/ KeyLeft \/ KeyHome \/ KeyEnd

\* The whole pipeline, from a source presentation.
Init ==
    /\ pc = "compile"
    /\ overflow_checks \in BOOLEAN
    /\ \E n \in 0..MaxObjects : \E objects \in [1..n -> ObjectUniverse] :
       \E frame_count \in 0..MaxFrameCount :
            source = SourcePresentation(6, 3, frame_count, objects)
    /\ frame = 0
    /\ next_object = 1
    /\ ops = <<>>
    /\ RenderIdle
    /\ CoordIdle
    /\ TableIdle
    /\ LoopIdle
    /\ EditorIdle

Next == ResolveObject \/ FinishFrame \/ CompileDone \/ RenderNext

Spec == Init /\ [][Next]_vars

\* The renderer and the player alone, from a given scene list.
RenderInit ==
    /\ pc = "compiled"
    /\ contract \in Contracts
    /\ \E n \in 0..MaxScenes : \E lens \in [1..n -> 0..MaxOps] :
            /\ SumSeq(lens) <= MaxOps
            /\ \E flat \in [1..SumSeq(lens) -> OpUniverse] :
                    scenes = SplitOps(flat, lens, contract)
    /\ frames = <<>>
    /\ grid = <<>>
    /\ current_frame = 0
    /\ frame = 0
    /\ EngineIdle
    /\ CoordIdle
    /\ TableIdle
    /\ LoopIdle
    /\ EditorIdle

SpecRender == RenderInit /\ [][RenderNext]_vars

\* ------------------------------------------------------------------------
\* Coordinate::evaluate applied to one coordinate at one frame
\* ------------------------------------------------------------------------

\* Greatest frame index a coordinate is evaluated at.
MaxFrame == 16

\* Fixed values in halves: negative, fractional, and around the u16 maximum.
FixedHalves == {-3, 0, 1, 3, 4, 131070, 131071, 131072, 200001}

AnimValues == {0, 1, 10, 20, 45, U16Max}
AnimStarts == {0, 5}
AnimEnds == {0, 5, 10, 15}

CoordSamples ==
    {Fixed(h) : h \in FixedHalves}
        \cup {Animated(a, b, s, e) :
                a \in AnimValues, b \in AnimValues, s \in AnimStarts, e \in AnimEnds}

Evaluate ==
    /\ pc = "coord"
    /\ value' = evaluate(coord, frame)
    /\ pc' = "evaluated"
    /\ UNCHANGED <<coord, frame, engine_vars, render_vars, table_vars,
                   loop_vars, editor_vars>>

CoordInit ==
    /\ pc = "coord"
    /\ coord \in CoordSamples
    /\ frame \in 0..MaxFrame
    /\ value = 0
    /\ EngineIdle
    /\ RenderIdle
    /\ TableIdle
    /\ LoopIdle
    /\ EditorIdle

CoordNext == Evaluate

SpecCoord == CoordInit /\ [][CoordNext]_vars

\* ------------------------------------------------------------------------
\* Column edits on one table
\* ------------------------------------------------------------------------

\* Tables to edit: one column, equal halves, unequal columns with a row short
\* of cells, thirds with no cells stored yet, one column taking nearly all the
\* width, and a table without columns.
EditTables ==
    {Table(Position(At(0), At(0)), At(6), At(0), <<One>>, 1,
           <<<<TableCell(<<"a">>, None)>>>>, TRUE, TRUE, DefaultStyle, FrameRange(0, 1), 0),
     Table(Position(At(0), At(0)), At(6), At(0), <<Half, Half>>, 2,
           <<<<TableCell(<<"a">>, None), TableCell(<<"b">>, None)>>,
             <<TableCell(<<"c">>, None), TableCell(<<"d">>, None)>>>>,
           TRUE, TRUE, DefaultStyle, FrameRange(0, 1), 0),
     Table(Position(At(0), At(0)), At(6), At(0), <<Fraction(1, 3), Fraction(2, 3)>>, 1,
           <<<<TableCell(<<"a">>, None)>>>>, TRUE, TRUE, DefaultStyle, FrameRange(0, 1), 0),
     Table(Position(At(0), At(0)), At(6), At(0),
           <<Fraction(1, 3), Fraction(1, 3), Fraction(1, 3)>>, 2,
           <<>>, TRUE, TRUE, DefaultStyle, FrameRange(0, 1), 0),
     Table(Position(At(0), At(0)), At(6), At(0),
           <<Fraction(1999, 2000), Fraction(1, 2000)>>, 1,
           <<<<TableCell(<<"a">>, None), TableCell(<<"b">>, None)>>>>,
           TRUE, TRUE, DefaultStyle, FrameRange(0, 1), 0),
     Table(Position(At(0), At(0)), At(6), At(0), <<>>, 1,
           <<>>, TRUE, TRUE, DefaultStyle, FrameRange(0, 1), 0)}

\* A call of table_add_column, with any index up to one past the last valid one.
TableAddColumn ==
    /\ pc = "edit"
    /\ Len(edit_log) < MaxEdits
    /\ \E insert_idx \in 0..(Len(table.col_widths) + 1) :
            /\ table' = table_add_column(table, insert_idx)
            /\ edit_log' = Append(edit_log, [op |-> "add", idx |-> insert_idx,
                                             table |-> table])
    /\ UNCHANGED <<pc, frame, engine_vars, render_vars, coord_vars, loop_vars, editor_vars>>

\* A call of table_remove_column, with any index up to one past the last column.
TableRemoveColumn ==
    /\ pc = "edit"
    /\ Len(edit_log) < MaxEdits
    /\ \E col_idx \in 0..Len(table.col_widths) :
            /\ table' = table_remove_column(table, col_idx)
            /\ edit_log' = Append(edit_log, [op |-> "remove", idx |-> col_idx,
                                             table |-> table])
    /\ UNCHANGED <<pc, frame, engine_vars, render_vars, coord_vars, loop_vars, editor_vars>>

TableInit ==
    /\ pc = "edit"
    /\ table \in EditTables
    /\ edit_log = <<>>
    /\ frame = 0
    /\ EngineIdle
    /\ RenderIdle
    /\ CoordIdle
    /\ LoopIdle
    /\ EditorIdle

TableNext == TableAddColumn \/ TableRemoveColumn

SpecTable == TableInit /\ [][TableNext]_vars

\* ------------------------------------------------------------------------
\* Claims about Coordinate::evaluate (checked under SpecCoord)
\* ------------------------------------------------------------------------

Abs(n) == IF n < 0 THEN 0 - n ELSE n

\* floor(max(0, v)) of a Fixed value kept in halves.
FloorOfFixed(c) == IF c.halves <= 0 THEN 0 ELSE c.halves \div 2

\* The exact interpolated value is InterpNum / InterpDen.
InterpDen(c) == c.end_frame - c.start_frame
InterpNum(c, f) == c.from * InterpDen(c) + (c.to - c.from) * (f - c.start_frame)

InSpan(c, f) == c.kind = "animated" /\ c.start_frame < f /\ f < c.end_frame

\* C7 as stated: Fixed(v) gives floor(max(0, v)); Animated with
\* start_frame < end_frame gives from up to start_frame, to from end_frame on,
\* and in between the interpolated value rounded to the nearest integer, half
\* away from zero.
C7_EvaluateHalfAwayFromZero ==
    pc = "evaluated" =>
        /\ coord.kind = "fixed" => value = FloorOfFixed(coord)
        /\ (coord.kind = "animated" /\ coord.start_frame < coord.end_frame) =>
            /\ frame <= coord.start_frame => value = coord.from
            /\ frame >= coord.end_frame => value = coord.to
            /\ InSpan(coord, frame) =>
                value = (2 * InterpNum(coord, frame) + InterpDen(coord))
                            \div (2 * InterpDen(coord))

\* C7 as amended: Fixed(v) gives floor(max(0, v)) capped at the u16 maximum;
\* Animated with start_frame < end_frame gives from up to start_frame, to from
\* end_frame on, and in between an integer at most one half away from the
\* exact interpolated value (the nearest integer, either neighbour at an exact
\* half); from 10 to 20 over frames 5 to 15 gives 15 at frame 10.
C7_EvaluateNearest ==
    pc = "evaluated" =>
        /\ coord.kind = "fixed" =>
                value = IF FloorOfFixed(coord) > U16Max THEN U16Max
                        ELSE FloorOfFixed(coord)
        /\ (coord.kind = "animated" /\ coord.start_frame < coord.end_frame) =>
            /\ frame <= coord.start_frame => value = coord.from
            /\ frame >= coord.end_frame => value = coord.to
            /\ InSpan(coord, frame) =>
                2 * Abs(value * InterpDen(coord) - InterpNum(coord, frame))
                    <= InterpDen(coord)
        /\ (coord = Animated(10, 20, 5, 15) /\ frame = 10) => value = 15

\* C7 witness: an interpolation whose exact value is not an integer, downwards.
C7_Witness ==
    /\ pc = "evaluated"
    /\ InSpan(coord, frame)
    /\ coord.from > coord.to
    /\ InterpNum(coord, frame) % InterpDen(coord) # 0

\* C8 as stated: with end_frame <= start_frame evaluate returns `to` at every
\* frame.
C8_ZeroSpanAlwaysTo ==
    (pc = "evaluated" /\ coord.kind = "animated"
        /\ coord.end_frame <= coord.start_frame) => value = coord.to

\* C8 as amended: with end_frame <= start_frame evaluate returns `from` at
\* every frame up to start_frame and `to` at every later frame; the division
\* is never reached.
C8_ZeroSpanFromThenTo ==
    (pc = "evaluated" /\ coord.kind = "animated"
        /\ coord.end_frame <= coord.start_frame) =>
            /\ ~InSpan(coord, frame)
            /\ value = IF frame <= coord.start_frame THEN coord.from ELSE coord.to

\* C8 witness: a zero-length span evaluated at its start frame, from # to.
C8_Witness ==
    /\ pc = "evaluated"
    /\ coord.kind = "animated"
    /\ coord.end_frame = coord.start_frame
    /\ frame = coord.start_frame
    /\ coord.from # coord.to

\* ------------------------------------------------------------------------
\* Claims about the renderer (checked under SpecRender)
\* ------------------------------------------------------------------------

Rendered == pc = "rendered"

\* The DrawOps of a scene that target cell (x, y), by index.
Targeting(scene, x, y) ==
    {k \in 1..Len(scene.ops) : scene.ops[k].x = x /\ scene.ops[k].y = y}

\* The index of the op that must win cell (x, y): greatest z_order, and among
\* those the latest in the list.
Winner(scene, x, y) ==
    LET T == Targeting(scene, x, y)
        top == {k \in T : \A j \in T : scene.ops[j].z_order <= scene.ops[k].z_order}
    IN CHOOSE k \in top : \A j \in top : j <= k

C2_ZOrderCompositing ==
    Rendered =>
        \A i \in 1..Len(scenes) :
            LET g == rasterize(scenes[i], contract)
            IN /\ i = 1 => frames[1].cells = g
               /\ \A x \in 0..(contract.width - 1), y \in 0..(contract.height - 1) :
                    IF Targeting(scenes[i], x, y) = {}
                    THEN g[y + 1][x + 1] = DefaultCell
                    ELSE LET op == scenes[i].ops[Winner(scenes[i], x, y)]
                         IN g[y + 1][x + 1] = [ch |-> op.ch, style |-> op.style]

\* C2 witness: a rendered scene where a later op of lower z_order targets the
\* same cell as an earlier op of higher z_order.
C2_Witness ==
    /\ Rendered
    /\ \E i \in 1..Len(scenes) : \E j, k \in 1..Len(scenes[i].ops) :
            /\ j < k
            /\ scenes[i].ops[j].x = scenes[i].ops[k].x
            /\ scenes[i].ops[j].y = scenes[i].ops[k].y
            /\ scenes[i].ops[j].x < contract.width
            /\ scenes[i].ops[j].y < contract.height
            /\ scenes[i].ops[j].z_order > scenes[i].ops[k].z_order
            /\ scenes[i].ops[j].style # scenes[i].ops[k].style

\* C3 (diff exactness): Diff frame N lists cell (x, y) iff the grids of scenes
\* N-1 and N differ there, lists it once, and carries grid N's cell.
C3_DiffExact ==
    Rendered =>
        \A n \in 2..Len(frames) :
            LET before == rasterize(scenes[n - 1], contract)
                after == rasterize(scenes[n], contract)
                changes == frames[n].changes
            IN /\ \A x \in 0..(contract.width - 1), y \in 0..(contract.height - 1) :
                    LET listed == {k \in 1..Len(changes) :
                                        changes[k].x = x /\ changes[k].y = y}
                    IN /\ (listed # {}) <=> (before[y + 1][x + 1] # after[y + 1][x + 1])
                       /\ Cardinality(listed) <= 1
               /\ \A k \in 1..Len(changes) :
                    /\ changes[k].x < contract.width
                    /\ changes[k].y < contract.height
                    /\ changes[k].cell = after[changes[k].y + 1][changes[k].x + 1]
               /\ (before = after) => changes = <<>>

\* C3 witness: a Diff frame between two scenes whose grids differ in one cell
\* and agree in another.
C3_Witness ==
    /\ Rendered
    /\ \E n \in 2..Len(frames) : Len(frames[n].changes) = 1

\* C4 (first-frame invariant): render returns one frame per scene; frame 0 is
\* Full with contract.height rows of contract.width cells, the others are Diff.
C4_FirstFrameFull ==
    Rendered =>
        /\ Len(frames) = Len(scenes)
        /\ \A n \in 1..Len(frames) :
            IF n = 1
            THEN /\ frames[n].type = "full"
                 /\ Len(frames[n].cells) = contract.height
                 /\ \A y \in 1..contract.height :
                        Len(frames[n].cells[y]) = contract.width
                 /\ frames[n].cells = rasterize(scenes[1], contract)
            ELSE frames[n].type = "diff"

\* C4 witness: two scenes were rendered.
C4_Witness == Rendered /\ Len(frames) >= 2

InBounds(op) == op.x < contract.width /\ op.y < contract.height

\* C6 (out-of-bounds ops are dropped): rasterizing a scene with and without
\* its out-of-bounds ops gives the same grid.
C6_OutOfBoundsDropped ==
    Rendered =>
        \A i \in 1..Len(scenes) :
            /\ rasterize(scenes[i], contract)
                = rasterize([scenes[i] EXCEPT !.ops = SelectSeq(scenes[i].ops, InBounds)],
                            contract)
            /\ i = 1 => frames[1].cells
                = rasterize([scenes[i] EXCEPT !.ops = SelectSeq(scenes[i].ops, InBounds)],
                            contract)

\* C6 witness: a rendered scene with an op right of the grid and one below it.
C6_Witness ==
    /\ Rendered
    /\ \E i \in 1..Len(scenes) :
            /\ \E k \in 1..Len(scenes[i].ops) : scenes[i].ops[k].x >= contract.width
    /\ \E i \in 1..Len(scenes) :
            /\ \E k \in 1..Len(scenes[i].ops) : scenes[i].ops[k].y >= contract.height

\* ------------------------------------------------------------------------
\* Claims about the engine (checked under Spec)
\* ------------------------------------------------------------------------

\* Frame f lies outside the frame range of object o.
OutOfRange(o, f) == f < o.frames.start \/ f >= o.frames.end

\* C5 (frame-range containment): when resolve_frame hands frame f to an
\* object whose frame range does not hold f (f < start or f >= end), or to a
\* Group at any frame, the call returns with the op list exactly as it was.
C5_FrameRangeContainment ==
    [][(/\ pc = "compile"
        /\ frame < source.frame_count
        /\ next_object <= Len(source.objects)
        /\ \/ source.objects[next_object].type = "group"
           \/ OutOfRange(source.objects[next_object], frame))
       => (ops' = ops /\ pc' = "compile")]_vars

\* C5 witness: an object other than a Group has just been resolved at a frame
\* outside its range, after an earlier object had pushed DrawOps.
C5_Witness ==
    /\ pc = "compile"
    /\ next_object > 1
    /\ ops # <<>>
    /\ source.objects[next_object - 1].type # "group"
    /\ OutOfRange(source.objects[next_object - 1], frame)

\* C9 (totality): no resolver panics, and none of the additions and
\* subtractions on positions overflows or underflows, so no coordinate of a
\* pushed DrawOp has wrapped around.
C9_Totality ==
    /\ pc # "overflow_panic"
    /\ (pc = "compile" /\ next_object > 1)
            => ~resolve(source.objects[next_object - 1], frame).overflow

\* The number of DrawOps the first k objects push at frame f.
PushedBy(k, f) ==
    SumSeq([j \in 1..k |-> Len(resolve(source.objects[j], f).ops)])

\* C10 (compile): Engine::compile returns frame_count scenes; scene i has the
\* source's width and height, and its op list is made of the pushes of the
\* objects at frame i, object after object in list order, each object's
\* pushes in the order it made them.
C10_CompileScenes ==
    pc = "compiled" =>
        /\ Len(scenes) = source.frame_count
        /\ \A i \in 1..Len(scenes) :
            /\ scenes[i].width = source.width
            /\ scenes[i].height = source.height
            /\ Len(scenes[i].ops) = PushedBy(Len(source.objects), i - 1)
            /\ \A k \in 1..Len(source.objects) :
                    SubSeq(scenes[i].ops, PushedBy(k - 1, i - 1) + 1,
                           PushedBy(k, i - 1))
                        = resolve(source.objects[k], i - 1).ops

\* C10 witness: compile has returned two scenes, and in one of them two
\* objects have both pushed DrawOps, and not the same ones.
C10_Witness ==
    /\ pc = "compiled"
    /\ Len(scenes) = 2
    /\ \E i \in 1..2 : \E j, k \in 1..Len(source.objects) :
            /\ j < k
            /\ resolve(source.objects[j], i - 1).ops # <<>>
            /\ resolve(source.objects[k], i - 1).ops # <<>>
            /\ resolve(source.objects[j], i - 1).ops
                    # resolve(source.objects[k], i - 1).ops

MaxTextLen == 4

TextAlphabet == {"a", "b", " ", "\n"}

\* Every text of at most MaxTextLen characters over the alphabet.
ShortTexts == UNION {[1..n -> TextAlphabet] : n \in 0..MaxTextLen}

HelloWorld == <<"H", "e", "l", "l", "o", " ", "W", "o", "r", "l", "d">>

\* Longer texts: the documented example, list items and a run of spaces.
SampleTexts ==
    {HelloWorld,
     <<"-", " ", "a", "b", " ", "c", "d", " ", "e">>,
     <<"1", ".", " ", "a", "b", " ", "c", "d">>,
     <<"a", "b", " ", " ", " ", "c", "d", "\n", " ", "e">>}

\* A style with a background colour.
FilledStyle == [DefaultStyle EXCEPT !.bg = "blue"]

LabelWidths == {0, 1, 2, 3, 5}
LabelHeights == {0, 1, 2}
LabelCorners == {Position(At(x), At(y)) : x \in {0, 1}, y \in {0, 1}}

\* Unframed labels over every one of the short texts, and labels over the
\* sample texts at every corner, framed or not.
LabelUniverse(short_texts) ==
    {Label(t, Position(At(1), At(1)), At(w), At(h), FALSE, None, s, FrameRange(0, 1), 0) :
        t \in short_texts, w \in LabelWidths, h \in LabelHeights,
        s \in {DefaultStyle, FilledStyle}}
    \cup
    {Label(t, p, At(w), At(h), fr[1], fr[2], s, FrameRange(0, 1), 0) :
        t \in SampleTexts, p \in LabelCorners, w \in LabelWidths, h \in LabelHeights,
        fr \in {<<FALSE, None>>, <<TRUE, None>>, <<TRUE, Some(BoldStyle)>>},
        s \in {DefaultStyle, FilledStyle}}

\* Engine::resolve_frame at frame 0 of a source that holds one object of the
\* given universe.
AloneInit(universe) ==
    /\ pc = "compile"
    /\ overflow_checks = FALSE
    /\ \E o \in universe : source = SourcePresentation(8, 4, 1, <<o>>)
    /\ frame = 0
    /\ next_object = 1
    /\ ops = <<>>
    /\ RenderIdle
    /\ CoordIdle
    /\ TableIdle
    /\ LoopIdle
    /\ EditorIdle

LabelInit == AloneInit(LabelUniverse(ShortTexts))

SpecLabel == LabelInit /\ [][ResolveObject]_vars

\* The object of the source has been resolved.
ResolvedAlone == pc = "compile" /\ next_object = 2

\* The object that was resolved, and where it starts.
TheObject == source.objects[1]

BoxChars == {"box_dr", "box_dl", "box_ur", "box_ul", "box_h", "box_v"}

\* The DrawOps of a label's text: all but those of its border.
TextOps == {k \in 1..Len(ops) : ops[k].ch \notin BoxChars}

\* The cells <<column, row, character>> of the text DrawOps that hold a
\* character other than a space, relative to the corner (x0, y0).
InkCells(x0, y0) ==
    {<<ops[k].x - x0, ops[k].y - y0, ops[k].ch>> : k \in {j \in TextOps : ops[j].ch # " "}}

\* ------------------------------------------------------------------------
\* Claims about Label (checked under SpecLabel)
\* ------------------------------------------------------------------------

\* The rows of one logical line as the wrap rule states them, from the
\* characters `rest` still to lay out: each row is <<first column, content>>.
\* A row that cannot hold the rest ends before the last space within its
\* budget, or after budget characters when the budget holds no space; the
\* next row starts at the next character that is not a space.
RECURSIVE WrappedAsClaimed(_, _, _, _)
WrappedAsClaimed(rest, w, indent, first) ==
    LET col0 == IF first THEN 0 ELSE Min(indent, w - 1)
        budget == w - col0
        spaces == {i \in 1..Min(budget, Len(rest)) : rest[i] = " "}
        row_len == IF spaces = {} THEN budget
                   ELSE (CHOOSE i \in spaces : \A j \in spaces : j <= i) - 1
        words == {i \in (row_len + 1)..Len(rest) : rest[i] # " "}
        next == IF words = {} THEN Len(rest) + 1
                ELSE CHOOSE i \in words : \A j \in words : i <= j
    IN IF Len(rest) <= budget THEN <<<<col0, rest>>>>
       ELSE <<<<col0, SubSeq(rest, 1, row_len)>>>>
            \o (IF next > Len(rest) THEN <<>>
                ELSE WrappedAsClaimed(SubSeq(rest, next, Len(rest)), w, indent, FALSE))

\* All rows of a text of width w, line after line, at most h when h > 0.
RowsAsClaimed(text, w, h) ==
    LET lines == split(text)
        all == Flatten([k \in 1..Len(lines) |->
                    WrappedAsClaimed(lines[k], w, list_continuation_indent(lines[k]), TRUE)])
    IN IF h > 0 THEN SubSeq(all, 1, Min(h, Len(all))) ELSE all

\* The cells the claimed rows put a character other than a space in.
InkAsClaimed(rows) ==
    UNION {{<<rows[r][1] + (c - 1), r - 1, rows[r][2][c]>> :
                c \in {i \in 1..Len(rows[r][2]) : rows[r][2][i] # " "}} :
            r \in 1..Len(rows)}

\* C12 (label word wrap): a resolved Label of width w > 0 has its text in
\* rows of at most w columns; the characters other than spaces stand exactly
\* where the wrap rule puts them (break before the last space within the
\* row's budget, hard break after budget characters without a space, the
\* spaces at a break dropped); "Hello World" at width 5 gives the rows
\* "Hello" and "World".
C12_LabelWordWrap ==
    (ResolvedAlone /\ TheObject.width.halves > 0) =>
        LET w == TheObject.width.halves \div 2
            h == TheObject.height.halves \div 2
            x0 == TheObject.position.x.halves \div 2
            y0 == TheObject.position.y.halves \div 2
        IN /\ \A k \in TextOps : ops[k].x - x0 \in 0..(w - 1)
           /\ InkCells(x0, y0) = InkAsClaimed(RowsAsClaimed(TheObject.text, w, h))
           /\ (TheObject.text = HelloWorld /\ w = 5 /\ h = 0) =>
                InkCells(x0, y0) =
                    {<<0, 0, "H">>, <<1, 0, "e">>, <<2, 0, "l">>, <<3, 0, "l">>,
                     <<4, 0, "o">>, <<0, 1, "W">>, <<1, 1, "o">>, <<2, 1, "r">>,
                     <<3, 1, "l">>, <<4, 1, "d">>}

\* C12 witness: the list item "- ab cd e" resolved at width 3: its rows break
\* at spaces and its continuation rows are indented.
C12_Witness ==
    /\ ResolvedAlone
    /\ TheObject.text = <<"-", " ", "a", "b", " ", "c", "d", " ", "e">>
    /\ TheObject.width = At(3)
    /\ TheObject.height = At(0)
    /\ ops # <<>>

\* The evaluated geometry of the resolved Label.
LabelX == TheObject.position.x.halves \div 2
LabelY == TheObject.position.y.halves \div 2
LabelW == TheObject.width.halves \div 2
LabelH == TheObject.height.halves \div 2

\* The lines of the text that are drawn when the width is 0.
LinesDrawn ==
    IF LabelH > 0 THEN Min(LabelH, Len(split(TheObject.text)))
    ELSE Len(split(TheObject.text))

\* The text bounding box, in columns and rows: the width, or the longest
\* drawn line when the width is 0; the height, or the number of rows drawn
\* when the height is 0.
BoxWidth ==
    IF LabelW > 0 THEN LabelW
    ELSE IF LinesDrawn = 0 THEN 0
    ELSE LET lines == split(TheObject.text)
             longest == CHOOSE r \in 1..LinesDrawn :
                            \A q \in 1..LinesDrawn : Len(lines[q]) <= Len(lines[r])
         IN Len(lines[longest])

BoxHeight ==
    IF LabelH > 0 THEN LabelH
    ELSE IF LabelW > 0 THEN Len(RowsAsClaimed(TheObject.text, LabelW, 0))
    ELSE LinesDrawn

\* With a background and a width, every cell of the box has a text DrawOp.
FilledBox ==
    (TheObject.style.bg # "none" /\ LabelW > 0) =>
        \A c \in 0..(LabelW - 1), r \in 0..(BoxHeight - 1) :
            \E k \in TextOps : ops[k].x = LabelX + c /\ ops[k].y = LabelY + r

\* C17 (label fill): a resolved Label with a background colour has a DrawOp
\* on every cell of its width x height box; one without a background colour
\* has DrawOps for the characters of its text other than spaces only, at
\* width 0 and at width > 0.
C17_LabelFill ==
    (ResolvedAlone /\ TheObject.type = "label") =>
        /\ FilledBox
        /\ TheObject.style.bg = "none" => \A k \in TextOps : ops[k].ch # " "

\* The cells of the border lie on the ring around the text box.
OnRing(op) ==
    /\ op.x \in (LabelX - 1)..(LabelX + BoxWidth)
    /\ op.y \in (LabelY - 1)..(LabelY + BoxHeight)
    /\ \/ op.x \in {LabelX - 1, LabelX + BoxWidth}
       \/ op.y \in {LabelY - 1, LabelY + BoxHeight}

InTextBox(op) ==
    /\ op.x \in LabelX..(LabelX + BoxWidth - 1)
    /\ op.y \in LabelY..(LabelY + BoxHeight - 1)

\* C18 (label frame): the border DrawOps of a resolved framed Label lie on
\* the ring one cell outside the text bounding box, none of them on a cell of
\* the box, at any position including x = 0 or y = 0; they carry frame_style
\* when given and the label's style otherwise.
C18_LabelFrame ==
    (ResolvedAlone /\ TheObject.type = "label" /\ TheObject.framed) =>
        \A k \in (1..Len(ops)) \ TextOps :
            /\ OnRing(ops[k])
            /\ ~InTextBox(ops[k])
            /\ ops[k].style = IF TheObject.frame_style = None THEN TheObject.style
                              ELSE TheObject.frame_style[1]

\* ------------------------------------------------------------------------
\* One HLine resolved on its own
\* ------------------------------------------------------------------------

\* Greatest column of the short lines.
MaxHLineX == 3

\* Lines between the columns 0..MaxHLineX in either order, and the
\* documented line from 20 to 23, on rows 0 and 4.
HLineUniverse ==
    {HLine(At(y), At(x[1]), At(x[2]), ch, s, FrameRange(0, 1), z) :
        y \in {0, 4},
        x \in ((0..MaxHLineX) \X (0..MaxHLineX)) \cup {<<20, 23>>, <<23, 20>>},
        ch \in {"box_h", "="}, s \in {DefaultStyle, BoldStyle}, z \in {-1, 0}}

HLineInit == AloneInit(HLineUniverse)

SpecHLine == HLineInit /\ [][ResolveObject]_vars

\* C14 (HLine): a resolved HLine has one DrawOp for each column x with
\* x_start <= x < x_end, in increasing x, all on row y with the line's
\* character, style and z_order, and none when x_end <= x_start; y 4 from 20
\* to 23 gives the ops at (20, 4), (21, 4), (22, 4).
C14_HLineSpan ==
    (ResolvedAlone /\ TheObject.type = "hline") =>
        LET y == TheObject.y.halves \div 2
            x_start == TheObject.x_start.halves \div 2
            x_end == TheObject.x_end.halves \div 2
        IN /\ Len(ops) = IF x_end <= x_start THEN 0 ELSE x_end - x_start
           /\ \A x \in x_start..(x_end - 1) :
                Cardinality({k \in 1..Len(ops) : ops[k].x = x}) = 1
           /\ \A k \in 1..Len(ops) :
                /\ ops[k].x = x_start + (k - 1)
                /\ ops[k].y = y
                /\ ops[k].ch = TheObject.ch
                /\ ops[k].style = TheObject.style
                /\ ops[k].z_order = TheObject.z_order
           /\ (y = 4 /\ x_start = 20 /\ x_end = 23) =>
                <<ops[1].x, ops[1].y, ops[2].x, ops[2].y, ops[3].x, ops[3].y>>
                    = <<20, 4, 21, 4, 22, 4>>

\* C14 witness: the line on row 4 from column 20 to 23 was resolved into
\* three DrawOps.
C14_Witness ==
    /\ ResolvedAlone
    /\ TheObject.type = "hline"
    /\ TheObject.y = At(4)
    /\ TheObject.x_start = At(20)
    /\ TheObject.x_end = At(23)
    /\ Len(ops) = 3

\* ------------------------------------------------------------------------
\* One Arrow resolved on its own
\* ------------------------------------------------------------------------

\* Greatest coordinate of an arrow's end points.
MaxArrowCoord == 3

\* Arrows between any two cells of the square 0..MaxArrowCoord, with and
\* without a head, with the default characters, a head of a directional
\* family, a head of no family, and a body with a vertical counterpart.
ArrowUniverse ==
    {Arrow(At(a[1]), At(a[2]), At(b[1]), At(b[2]), head, head_ch, body_ch,
           BoldStyle, FrameRange(0, 1), 7) :
        a \in (0..MaxArrowCoord) \X (0..MaxArrowCoord),
        b \in (0..MaxArrowCoord) \X (0..MaxArrowCoord),
        head \in BOOLEAN, head_ch \in {None, Some("<"), Some("o")},
        body_ch \in {None, Some("box_double_h")}}

ArrowInit == AloneInit(ArrowUniverse)

SpecArrow == ArrowInit /\ [][ResolveObject]_vars

\* ------------------------------------------------------------------------
\* Claims about Arrow (checked under SpecArrow)
\* ------------------------------------------------------------------------

ResolvedArrow == ResolvedAlone /\ TheObject.type = "arrow"

\* The end points of the resolved Arrow and its extent.
ArrowX1 == TheObject.x1.halves \div 2
ArrowY1 == TheObject.y1.halves \div 2
ArrowX2 == TheObject.x2.halves \div 2
ArrowY2 == TheObject.y2.halves \div 2
ArrowDx == ArrowX2 - ArrowX1
ArrowDy == ArrowY2 - ArrowY1

\* A unit step as a direction name.
DirectionOf(step_x, step_y) ==
    IF step_x > 0 THEN "right" ELSE IF step_x < 0 THEN "left"
    ELSE IF step_y > 0 THEN "down" ELSE "up"

\* The arrowhead that points in a direction: the default triangle, or the
\* member of the custom head's family for that direction, or a custom head
\* of no family as it is.
Pointing(dir) ==
    LET triangles == [right |-> "tri_right", left |-> "tri_left",
                      down |-> "tri_down", up |-> "tri_up"]
        angles == [right |-> ">", left |-> "<", down |-> "v", up |-> "^"]
    IN IF TheObject.head_ch = None THEN triangles[dir]
       ELSE IF TheObject.head_ch[1] \in {">", "<", "v", "^"} THEN angles[dir]
       ELSE TheObject.head_ch[1]

\* The body character along a direction.
BodyAlong(dir) ==
    IF dir \in {"right", "left"}
    THEN (IF TheObject.body_ch = None THEN "box_h" ELSE TheObject.body_ch[1])
    ELSE (IF TheObject.body_ch = None THEN "box_v"
          ELSE IF TheObject.body_ch[1] = "box_double_h" THEN "box_double_v"
          ELSE TheObject.body_ch[1])

\* C13 (straight arrows): a resolved Arrow whose end points share a row or a
\* column and differ has a body character on every cell from the start up to
\* the end, in travel order, and on the end cell the arrowhead pointing in
\* the travel direction when head is set and the body character otherwise;
\* (0,0) to (3,0) with a head gives body characters at x = 0, 1, 2 and a
\* rightward head at x = 3, on row 0.
C13_StraightArrow ==
    (ResolvedArrow /\ (ArrowDx = 0 \/ ArrowDy = 0) /\ (ArrowDx # 0 \/ ArrowDy # 0)) =>
        LET n == Abs(ArrowDx) + Abs(ArrowDy)
            step_x == IF ArrowDx > 0 THEN 1 ELSE IF ArrowDx < 0 THEN 0 - 1 ELSE 0
            step_y == IF ArrowDy > 0 THEN 1 ELSE IF ArrowDy < 0 THEN 0 - 1 ELSE 0
            dir == DirectionOf(step_x, step_y)
        IN /\ Len(ops) = n + 1
           /\ \A k \in 1..n :
                /\ ops[k].x = ArrowX1 + (k - 1) * step_x
                /\ ops[k].y = ArrowY1 + (k - 1) * step_y
                /\ ops[k].ch = BodyAlong(dir)
           /\ ops[n + 1].x = ArrowX2
           /\ ops[n + 1].y = ArrowY2
           /\ ops[n + 1].ch = IF TheObject.head THEN Pointing(dir) ELSE BodyAlong(dir)
           /\ (/\ <<ArrowX1, ArrowY1, ArrowX2, ArrowY2>> = <<0, 0, 3, 0>>
               /\ TheObject.head /\ TheObject.head_ch = None /\ TheObject.body_ch = None)
                => [k \in 1..4 |-> <<ops[k].x, ops[k].y, ops[k].ch>>]
                        = <<<<0, 0, "box_h">>, <<1, 0, "box_h">>, <<2, 0, "box_h">>,
                            <<3, 0, "tri_right">>>>

\* C13 witness: a leftward arrow of three cells or more was resolved, with a
\* custom head of a directional family.
C13_Witness ==
    /\ ResolvedArrow
    /\ ArrowDy = 0
    /\ ArrowDx < 0 - 1
    /\ TheObject.head
    /\ TheObject.head_ch = Some("<")
    /\ Len(ops) > 2

\* The corner glyph whose arms point in the two given directions.
CornerWithArms(arms) ==
    IF arms = {"down", "right"} THEN "box_dr"
    ELSE IF arms = {"down", "left"} THEN "box_dl"
    ELSE IF arms = {"up", "right"} THEN "box_ur"
    ELSE IF arms = {"up", "left"} THEN "box_ul"
    ELSE "none"

\* The k-th cell (from 0) of the claimed route: along the row of the start
\* and then the column of the end when |dx| >= |dy|, along the column of the
\* start and then the row of the end otherwise.
RouteCell(k) ==
    LET sx == IF ArrowDx > 0 THEN 1 ELSE 0 - 1
        sy == IF ArrowDy > 0 THEN 1 ELSE 0 - 1
    IN IF Abs(ArrowDx) >= Abs(ArrowDy)
       THEN (IF k <= Abs(ArrowDx) THEN <<ArrowX1 + k * sx, ArrowY1>>
             ELSE <<ArrowX2, ArrowY1 + (k - Abs(ArrowDx)) * sy>>)
       ELSE (IF k <= Abs(ArrowDy) THEN <<ArrowX1, ArrowY1 + k * sy>>
             ELSE <<ArrowX1 + (k - Abs(ArrowDy)) * sx, ArrowY2>>)

\* C19 (diagonal arrow routing): a resolved Arrow with dx # 0 and dy # 0
\* follows the claimed route, turning at (x2, y1) when |dx| >= |dy| and at
\* (x1, y2) otherwise; the only corner glyph is at the turn and its arms point
\* to the cell before and to the cell after the turn; the head points along
\* the last segment.
C19_DiagonalRouting ==
    (ResolvedArrow /\ ArrowDx # 0 /\ ArrowDy # 0) =>
        LET n == Abs(ArrowDx) + Abs(ArrowDy)
            turn == IF Abs(ArrowDx) >= Abs(ArrowDy) THEN Abs(ArrowDx) ELSE Abs(ArrowDy)
            cell(k) == <<ops[k + 1].x, ops[k + 1].y>>
            toward(k) == DirectionOf(RouteCell(k)[1] - RouteCell(turn)[1],
                                     RouteCell(k)[2] - RouteCell(turn)[2])
            last == DirectionOf(RouteCell(n)[1] - RouteCell(n - 1)[1],
                                RouteCell(n)[2] - RouteCell(n - 1)[2])
        IN /\ Len(ops) = n + 1
           /\ \A k \in 0..n : cell(k) = RouteCell(k)
           /\ RouteCell(turn) = IF Abs(ArrowDx) >= Abs(ArrowDy)
                                THEN <<ArrowX2, ArrowY1>> ELSE <<ArrowX1, ArrowY2>>
           /\ {k \in 0..n : ops[k + 1].ch \in {"box_dr", "box_dl", "box_ur", "box_ul"}}
                = {turn}
           /\ ops[turn + 1].ch = CornerWithArms({toward(turn - 1), toward(turn + 1)})
           /\ ops[n + 1].ch = IF TheObject.head THEN Pointing(last) ELSE BodyAlong(last)

\* C19 witness: one arrow routed along the row first and going up-left, and
\* drawn with a head.
C19_Witness ==
    /\ ResolvedArrow
    /\ ArrowDx < 0 - 1
    /\ ArrowDy < 0
    /\ Abs(ArrowDx) > Abs(ArrowDy)
    /\ TheObject.head
    /\ Len(ops) > 3

\* C20 (arrow path shape): a resolved Arrow, straight, diagonal or a single
\* point, has |x2 - x1| + |y2 - y1| + 1 DrawOps on pairwise distinct cells,
\* the first at the start, the last at the end, consecutive ones on cells
\* adjacent in a row or a column, all with the arrow's style and z_order.
C20_ArrowPathShape ==
    ResolvedArrow =>
        /\ Len(ops) = Abs(ArrowDx) + Abs(ArrowDy) + 1
        /\ \A j, k \in 1..Len(ops) :
                (j # k) => <<ops[j].x, ops[j].y>> # <<ops[k].x, ops[k].y>>
        /\ <<ops[1].x, ops[1].y>> = <<ArrowX1, ArrowY1>>
        /\ <<ops[Len(ops)].x, ops[Len(ops)].y>> = <<ArrowX2, ArrowY2>>
        /\ \A k \in 1..(Len(ops) - 1) :
                Abs(ops[k + 1].x - ops[k].x) + Abs(ops[k + 1].y - ops[k].y) = 1
        /\ \A k \in 1..Len(ops) :
                ops[k].style = TheObject.style /\ ops[k].z_order = TheObject.z_order

\* C20 witness: a diagonal arrow routed along the column first was resolved
\* into five DrawOps or more.
C20_Witness ==
    /\ ResolvedArrow
    /\ Abs(ArrowDy) > Abs(ArrowDx)
    /\ ArrowDx # 0
    /\ Len(ops) >= 5

\* ------------------------------------------------------------------------
\* Column edits: an added column taken away again, and what every edit keeps
\* ------------------------------------------------------------------------

\* |a - b| <= 1e-6, for numbers as limbs: the difference times a million is at
\* most one.
Within1e6(a, b) ==
    LET gap == IF LtLimbs(a, b) THEN SubLimbs(b, a, 1, 0) ELSE SubLimbs(a, b, 1, 0)
    IN ~LtLimbs(One, Normal(MulLimbs(MulLimbs(gap, 1000, 1, 0), 1000, 1, 0)))

\* The exact sum of the fractions from the k-th on.
RECURSIVE SumFractions(_, _)
SumFractions(col_widths, k) ==
    IF k > Len(col_widths) THEN <<>>
    ELSE Normal(AddLimbs(col_widths[k], SumFractions(col_widths, k + 1), 1, 0))

\* The table after the first k logged edits.
TableAfter(k) == IF k < Len(edit_log) THEN edit_log[k + 1].table ELSE table

\* The k-th edit added a column and the next one removed the column at the
\* same index.
AddedThenRemoved(k) ==
    /\ k + 1 <= Len(edit_log)
    /\ edit_log[k].op = "add"
    /\ edit_log[k + 1].op = "remove"
    /\ edit_log[k + 1].idx = edit_log[k].idx

\* The table after is the table before in its fractions: as many, and each
\* within 1e-6 of what it was.
SameFractions(before, after) ==
    /\ Len(after.col_widths) = Len(before.col_widths)
    /\ \A j \in 1..Len(before.col_widths) :
            Within1e6(after.col_widths[j], before.col_widths[j])

\* C15 as stated: for every table and every index i, table_add_column(i) and
\* then table_remove_column(i) leave col_widths with its original length and
\* every fraction within 1e-6 of its value before the add.
C15_RoundTripEveryIndex ==
    \A k \in 1..Len(edit_log) :
        AddedThenRemoved(k) => SameFractions(edit_log[k].table, TableAfter(k + 1))

\* C15: for every table with at least one column and every index i no greater
\* than the number of columns, table_add_column(i) and then
\* table_remove_column(i) leave col_widths with its original length and every
\* fraction within 1e-6 of its value before the add.
C15_ColumnRoundTrip ==
    \A k \in 1..Len(edit_log) :
        (/\ AddedThenRemoved(k)
         /\ Len(edit_log[k].table.col_widths) >= 1
         /\ edit_log[k].idx <= Len(edit_log[k].table.col_widths))
            => SameFractions(edit_log[k].table, TableAfter(k + 1))

\* Two unequal columns got a third one in the middle, which was then removed.
C15_Witness ==
    /\ Len(edit_log) = 2
    /\ AddedThenRemoved(1)
    /\ edit_log[1].idx = 1
    /\ Len(edit_log[1].table.col_widths) = 2
    /\ edit_log[1].table.col_widths[1] # edit_log[1].table.col_widths[2]
    /\ Len(edit_log[2].table.col_widths) = 3

\* The table the edits started from.
FirstTable == TableAfter(0)

\* The fractions sum to 1, within 1e-6.
SumsToOne(t) == Within1e6(SumFractions(t.col_widths, 1), One)

\* Every row of cells has as many cells as there are columns.
Rectangular(t) == \A r \in 1..Len(t.cells) : Len(t.cells[r]) = Len(t.col_widths)

\* What C16 says every edit keeps.
ColumnsIntact(t) ==
    /\ Rectangular(t)
    /\ SumsToOne(t)
    /\ Len(t.col_widths) >= 1

MaxTableWidth == 7

\* Column fractions: one column, halves, exact and inexact thirds, fractions
\* that sum to 2 and to 1/2, and no column at all.
DrawColumns ==
    {<<One>>, <<Half, Half>>, <<Fraction(1, 3), Fraction(2, 3)>>,
     <<Fraction(1, 3), Fraction(1, 3), Fraction(1, 3)>>, <<One, Half, Half>>,
     <<Fraction(1, 4), Fraction(1, 4)>>, <<>>}

RedStyle == [DefaultStyle EXCEPT !.fg = "red"]

\* No cells; two rows with text that wraps, a cell style with a background and
\* a header cell whose own style is not bold; rows shorter than the columns
\* with a blank cell and a bold cell.
DrawCells ==
    {<<>>,
     <<<<TableCell(<<"x">>, Some(RedStyle)),
         TableCell(<<"a", "b", " ", "c", "d">>, None)>>,
       <<TableCell(<<"e", "\n", "f", "\n", "g">>, Some(FilledStyle)),
         TableCell(<<>>, None),
         TableCell(<<"y">>, None)>>>>,
     <<<<TableCell(<<" ", " ">>, Some(FilledStyle))>>,
       <<TableCell(<<"h", "i", "j">>, Some(BoldStyle))>>>>}

\* Tables at x = 0 or 1 of every width up to max_width, with and without
\* borders and a bold header, of 0 to 2 rows.
TableUniverse(max_width) ==
    {Table(Position(At(x), At(1)), At(w), At(0), cols, rows, cells, header_bold,
           borders, style, FrameRange(0, 1), 0) :
        x \in {0, 1}, w \in 0..max_width, cols \in DrawColumns, rows \in 0..2,
        cells \in DrawCells, header_bold \in BOOLEAN, borders \in BOOLEAN,
        style \in {DefaultStyle, BoldStyle}}

TableDrawInit == AloneInit(TableUniverse(MaxTableWidth))

SpecTableDraw == TableDrawInit /\ [][ResolveObject]_vars

\* The position and the width the table was resolved at.
TableX == evaluate(TheObject.position.x, 0)
TableY == evaluate(TheObject.position.y, 0)
TableWidth == evaluate(TheObject.width, 0)
NCols == Len(TheObject.col_widths)

\* The width left for cell content once the border columns are taken.
AvailableWidth ==
    IF TheObject.borders THEN Max(0, TableWidth - (NCols + 1)) ELSE TableWidth

TheLayout == layout(TheObject, TableWidth)

\* floor(available * fraction) of column i, the product being that of f64.
FloorOfShare(i) ==
    Floor(F64Mul(Zeros(FracLimbs) \o LimbsOf(AvailableWidth),
                 TheObject.col_widths[i]))

\* The content widths of the columns before column i, summed.
AssignedBefore(i) == SumSeq(SubSeq(TheLayout.widths, 1, i - 1))

\* C21: layout(total_width) of a table with n >= 1 columns takes as available
\* width total_width minus the n + 1 border columns when borders are on, never
\* below 0; every column but the last gets floor(available * fraction) capped
\* by what is still unassigned, the last column gets all that is left, so the
\* content widths sum exactly to the available width whatever the fractions
\* sum to; with total_width = 0 or no columns both lists are empty.
C21_TableLayout ==
    ResolvedAlone =>
        IF NCols = 0 \/ TableWidth = 0
        THEN TheLayout.widths = <<>> /\ TheLayout.starts = <<>>
        ELSE /\ Len(TheLayout.widths) = NCols
             /\ Len(TheLayout.starts) = NCols
             /\ \A i \in 1..(NCols - 1) :
                    TheLayout.widths[i] =
                        Min(FloorOfShare(i), AvailableWidth - AssignedBefore(i))
             /\ TheLayout.widths[NCols] = AvailableWidth - AssignedBefore(NCols)
             /\ SumSeq(TheLayout.widths) = AvailableWidth

\* Three columns whose fractions sum to 2: the first takes the whole available
\* width of 3 and the others are left with nothing.
C21_Witness ==
    /\ ResolvedAlone
    /\ TheObject.col_widths = <<One, Half, Half>>
    /\ TheObject.borders
    /\ TableWidth = 7
    /\ TheLayout.widths = <<3, 0, 0>>

\* The glyphs of a table's border lines and column separators.
TableBorderChars ==
    {"box_dr", "box_dl", "box_ur", "box_ul", "box_h", "box_v", "box_dh",
     "box_uh", "box_vr", "box_vh", "box_vl"}

\* The glyphs where a horizontal border line meets a column edge.
JunctionChars == TableBorderChars \ {"box_h", "box_v"}

BorderOps == {k \in 1..Len(ops) : ops[k].ch \in TableBorderChars}
CellTextOps == {k \in 1..Len(ops) : ops[k].ch \notin TableBorderChars}

\* Every DrawOp lies in the columns [position.x, position.x + width).
InsideTableWidth ==
    \A k \in 1..Len(ops) : ops[k].x >= TableX /\ ops[k].x < TableX + TableWidth

\* The columns that hold a separator are those that hold a junction glyph.
SeparatorsOnJunctions ==
    {ops[k].x : k \in {j \in BorderOps : ops[j].ch = "box_v"}}
        = {ops[k].x : k \in {j \in BorderOps : ops[j].ch \in JunctionChars}}

\* No cell text lands on a cell that holds a border glyph.
TextOffBorders ==
    \A k \in CellTextOps : \A b \in BorderOps :
        ~(ops[k].x = ops[b].x /\ ops[k].y = ops[b].y)

\* C22 as stated: every DrawOp a Table emits has x in [position.x,
\* position.x + width), for every column count and every width, also when
\* width is smaller than the number of border columns; column separators sit
\* at the x of the junction glyphs of the horizontal border lines, and no
\* cell-text DrawOp lands on a cell that holds a border glyph.
C22_TableFootprint ==
    ResolvedAlone => InsideTableWidth /\ SeparatorsOnJunctions /\ TextOffBorders

\* The table pushed something: it has a width, columns and rows.
TableDrawn ==
    ResolvedAlone /\ TableWidth > 0 /\ NCols > 0 /\ TheObject.rows > 0

\* The wrapped display lines of the cell in row r and column c at the content
\* width of its column.
WrappedCell(r, c) ==
    wrap_cell_content(cell_content(TheObject, r, c), TheLayout.widths[c])

\* The largest number of display lines a cell of row r needs, and at least 1.
TallestCell(r) ==
    CHOOSE n \in 1..(MaxTableWidth + 4) :
        /\ \A c \in 1..NCols : Len(WrappedCell(r, c)) <= n
        /\ n = 1 \/ \E c \in 1..NCols : Len(WrappedCell(r, c)) = n

BorderRows == IF TheObject.borders THEN 1 ELSE 0

\* The first screen row of row r when every row before it is as high as its
\* tallest cell and each border line takes one screen row.
RowTop(r) ==
    TableY + BorderRows * r + SumSeq([k \in 1..(r - 1) |-> TallestCell(k)])

\* The screen rows of row r.
RowSpan(r) == RowTop(r)..(RowTop(r) + TallestCell(r) - 1)

\* C23: the height of row r is the largest number of wrapped display lines
\* that a cell of the row needs at its column's content width, and at least 1
\* also when every cell is empty or missing or every content width is 0; the
\* rows follow each other without sharing a screen row, and with borders
\* exactly one border row lies between two of them.
C23_RowHeights ==
    TableDrawn =>
        /\ \A k \in CellTextOps :
                \E r \in 1..TheObject.rows, c \in 1..NCols :
                    \E line \in 1..Len(WrappedCell(r, c)) :
                        /\ ops[k].y = RowTop(r) + (line - 1)
                        /\ ops[k].y \in RowSpan(r)
                        /\ ops[k].x - (TableX + TheLayout.starts[c]) + 1
                                \in 1..Len(WrappedCell(r, c)[line])
                        /\ ops[k].ch = WrappedCell(r, c)[line][
                                ops[k].x - (TableX + TheLayout.starts[c]) + 1]
        /\ \A r \in 1..TheObject.rows, c \in 1..NCols :
                \A line \in 1..Len(WrappedCell(r, c)) :
                    \A xi \in 1..Len(WrappedCell(r, c)[line]) :
                        (TheLayout.widths[c] > 0 /\ WrappedCell(r, c)[line][xi] # " ")
                            => \E k \in CellTextOps :
                                    /\ ops[k].x = TableX + TheLayout.starts[c] + (xi - 1)
                                    /\ ops[k].y = RowTop(r) + (line - 1)
                                    /\ ops[k].ch = WrappedCell(r, c)[line][xi]
        /\ \A r \in 1..(TheObject.rows - 1) :
                RowTop(r + 1) = RowTop(r) + TallestCell(r) + BorderRows
        /\ TheObject.borders =>
            /\ {ops[k].y : k \in {j \in BorderOps : ops[j].ch = "box_v"}}
                    = UNION {RowSpan(r) : r \in 1..TheObject.rows}
            /\ {ops[k].y : k \in {j \in BorderOps : ops[j].ch \in JunctionChars}}
                    = {TableY} \cup {RowTop(r) + TallestCell(r) :
                                        r \in 1..TheObject.rows}

\* A bordered table of two rows: the first is two lines high because of its
\* second cell, the second three lines high, and the border line between them
\* is the only one of its screen row.
C23_Witness ==
    /\ TableDrawn
    /\ TheObject.borders
    /\ TheObject.rows = 2
    /\ Len(WrappedCell(1, 1)) = 1
    /\ TallestCell(1) = 2
    /\ TallestCell(2) = 3
    /\ \E k \in BorderOps : ops[k].ch = "box_vr" /\ ops[k].y = TableY + 3
    /\ \E k \in CellTextOps : ops[k].ch = "g" /\ ops[k].y = TableY + 6

\* The DrawOp k lies in the content area of the cell in row r and column c.
InCell(k, r, c) ==
    /\ ops[k].y \in RowSpan(r)
    /\ ops[k].x >= TableX + TheLayout.starts[c]
    /\ ops[k].x < TableX + TheLayout.starts[c] + TheLayout.widths[c]

\* The style the cell carries itself, if any.
OwnStyle(r, c) ==
    IF cell_at(TheObject, r, c) = None THEN None
    ELSE cell_at(TheObject, r, c)[1].style

\* The cell's own style if it carries one, the table's base style otherwise.
ResolvedStyle(r, c) ==
    IF OwnStyle(r, c) = None THEN TheObject.style ELSE OwnStyle(r, c)[1]

\* Row 1 is the header row (row 0 of the source).
IsHeaderCell(r) == r = 1 /\ TheObject.header_bold

\* Every cell character is drawn with the resolved style of its cell, but
\* bold as given by bold_of(r, c).
CellsDrawnWith(bold_of(_, _)) ==
    \A k \in CellTextOps : \A r \in 1..TheObject.rows, c \in 1..NCols :
        InCell(k, r, c) =>
            ops[k].style = [ResolvedStyle(r, c) EXCEPT !.bold = bold_of(r, c)]

\* A header cell is bold unless it carries its own style, whose bold flag
\* then decides.
BoldUnlessOverridden(r, c) ==
    IF IsHeaderCell(r) /\ OwnStyle(r, c) = None THEN TRUE
    ELSE ResolvedStyle(r, c).bold

\* A header cell is bold whatever style it carries.
BoldInHeader(r, c) == IsHeaderCell(r) \/ ResolvedStyle(r, c).bold

\* C24 as stated: without editor overlay a cell that carries its own style is
\* drawn with that style instead of the table's base style, and every cell of
\* row 0 is drawn bold when header_bold is set, unless the cell's own style
\* overrides bold; cells of other rows keep the bold flag of their resolved
\* style.
C24_CellStyle == TableDrawn => CellsDrawnWith(BoldUnlessOverridden)

\* What resolve_internal does: every cell of row 0 is drawn bold when
\* header_bold is set, whatever the bold flag of its own style.
HeaderAlwaysBold == TableDrawn => CellsDrawnWith(BoldInHeader)

\* A header cell with a red, non-bold style of its own is drawn bold.
HeaderOverrideIgnored ==
    /\ TableDrawn
    /\ TheObject.header_bold
    /\ OwnStyle(1, 1) = Some(RedStyle)
    /\ \E k \in CellTextOps :
            /\ InCell(k, 1, 1)
            /\ ops[k].ch = "x"
            /\ ops[k].style = [RedStyle EXCEPT !.bold = TRUE]

\* ------------------------------------------------------------------------
\* A header alone in the presentation (engine/objects/header.rs, font.rs)
\* ------------------------------------------------------------------------

\* font::text_width from character i of the text on.
RECURSIVE text_width_from(_, _, _, _)
text_width_from(text, i, width, first) ==
    IF i > Len(text) THEN width
    ELSE IF glyph(to_ascii_uppercase(text[i])) # NoGlyph
    THEN text_width_from(text, i + 1,
                         width + (IF first THEN 0 ELSE 1)
                               + glyph(to_ascii_uppercase(text[i])).width,
                         FALSE)
    ELSE text_width_from(text, i + 1, width, first)

\* font::text_width
text_width(text) == text_width_from(text, 1, 0, TRUE)

MaxHeaderLen == 3

\* A lower-case letter, a narrow letter, a one-column glyph, the blank glyph
\* and a character the font does not hold.
HeaderAlphabet == {"a", "I", "!", " ", "~"}

HeaderUniverse(max_len) ==
    {Header(text, Position(At(x), At(1)), style, FrameRange(0, 1), 0, "#") :
        text \in UNION {[1..n -> HeaderAlphabet] : n \in 0..max_len},
        x \in {0, 2}, style \in {DefaultStyle, BoldStyle, FilledStyle}}

HeaderInit == AloneInit(HeaderUniverse(MaxHeaderLen))

SpecHeader == HeaderInit /\ [][ResolveObject]_vars

HeaderX == evaluate(TheObject.position.x, 0)
HeaderY == evaluate(TheObject.position.y, 0)

\* The characters of the text that have a glyph, uppercased, in order.
Recognized ==
    SelectSeq([i \in 1..Len(TheObject.text) |-> to_ascii_uppercase(TheObject.text[i])],
              LAMBDA c : glyph(c) # NoGlyph)

\* The first column of the k-th recognized character: one column after the
\* last column of the glyph before it.
RECURSIVE GlyphStart(_)
GlyphStart(k) ==
    IF k = 1 THEN HeaderX
    ELSE GlyphStart(k - 1) + glyph(Recognized[k - 1]).width + 1

HasBackground == TheObject.style.bg # "none"

BackgroundStyle ==
    [fg |-> "none", bg |-> TheObject.style.bg, bold |-> FALSE, dim |-> FALSE]

\* The filled cells of the glyphs, drawn with the header's character.
GlyphCells ==
    UNION {{<<GlyphStart(k) + c, HeaderY + (r - 1), TheObject.ch, TheObject.style>> :
                c \in glyph(Recognized[k]).rows[r]} :
            k \in 1..Len(Recognized), r \in 1..5}

\* The blank cells inside the glyphs, as background-colored spaces.
BlankCells ==
    UNION {{<<GlyphStart(k) + c, HeaderY + (r - 1), " ", BackgroundStyle>> :
                c \in (0..(glyph(Recognized[k]).width - 1)) \ glyph(Recognized[k]).rows[r]} :
            k \in 1..Len(Recognized), r \in 1..5}

\* The gap columns after the first n glyphs, as background-colored spaces.
GapCells(n) ==
    {<<GlyphStart(k) + glyph(Recognized[k]).width, HeaderY + (r - 1), " ",
       BackgroundStyle>> : k \in 1..n, r \in 1..5}

\* What the header pushed, as a set of cells.
Emitted == {<<ops[k].x, ops[k].y, ops[k].ch, ops[k].style>> : k \in 1..Len(ops)}

\* C25 as stated: a Header places the glyphs of its recognized characters
\* (looked up after uppercasing) left to right, each glyph starting one column
\* after the last column of the glyph before it, on the 5 rows from position.y;
\* a character with no glyph emits nothing and does not move the cursor; with
\* a background color the blank cells inside glyphs and the gap columns
\* between two consecutive glyphs are filled with background-colored spaces,
\* and no cell outside the columns [position.x, position.x + text_width(text))
\* is emitted.
C25_HeaderLayout ==
    ResolvedAlone =>
        /\ Emitted = GlyphCells \cup
                        (IF HasBackground
                         THEN BlankCells \cup GapCells(Len(Recognized) - 1)
                         ELSE {})
        /\ \A k \in 1..Len(ops) :
                /\ ops[k].x >= HeaderX
                /\ ops[k].x < HeaderX + text_width(TheObject.text)

\* What Header's resolve does: with a background color a gap column follows
\* every glyph, the last one included.
HeaderTrailingGap ==
    ResolvedAlone =>
        Emitted = GlyphCells \cup
                    (IF HasBackground
                     THEN BlankCells \cup GapCells(Len(Recognized))
                     ELSE {})

\* The header "I" with a background at x = 0 fills column 3, one past its
\* text width of 3.
HeaderGapPastText ==
    /\ ResolvedAlone
    /\ TheObject.text = <<"I">>
    /\ HasBackground
    /\ HeaderX = 0
    /\ text_width(TheObject.text) = 3
    /\ \E k \in 1..Len(ops) : ops[k].x = 3 /\ ops[k].ch = " "

\* ------------------------------------------------------------------------
\* A rect alone in the presentation (engine/objects/rect.rs)
\* ------------------------------------------------------------------------

MaxRectWidth == 5
MaxRectHeight == 3

\* Rects of every size from 0 x 0 on, without a title, with a title of one
\* character and with one of three.
RectUniverse(max_w, max_h) ==
    {Rect(Position(At(x), At(1)), At(w), At(h), DefaultStyle, FrameRange(0, 1), 0,
          title) :
        x \in {0, 1}, w \in 0..max_w, h \in 0..max_h,
        title \in {None, Some(<<"T">>), Some(<<"T", "i", "t">>)}}

RectInit == AloneInit(RectUniverse(MaxRectWidth, MaxRectHeight))

SpecRect == RectInit /\ [][ResolveObject]_vars

RectX == evaluate(TheObject.position.x, 0)
RectY == evaluate(TheObject.position.y, 0)
RectW == evaluate(TheObject.width, 0)
RectH == evaluate(TheObject.height, 0)

\* The cells on the perimeter of the w x h box at the rect's position.
Perimeter ==
    {cell \in (RectX..(RectX + RectW - 1)) \X (RectY..(RectY + RectH - 1)) :
        \/ cell[1] = RectX
        \/ cell[1] = RectX + RectW - 1
        \/ cell[2] = RectY
        \/ cell[2] = RectY + RectH - 1}

\* The DrawOps of the outline, and those of the title one z level above.
OutlineOps == {k \in 1..Len(ops) : ops[k].z_order = TheObject.z_order}
TitleOps == {k \in 1..Len(ops) : ops[k].z_order = TheObject.z_order + 1}

TitleText == IF TheObject.title = None THEN <<>> ELSE TheObject.title[1]

\* The outline covers the perimeter, each cell once, with box glyphs.
OutlineOnPerimeter ==
    /\ {<<ops[k].x, ops[k].y>> : k \in OutlineOps} = Perimeter
    /\ \A j, k \in OutlineOps :
            (ops[j].x = ops[k].x /\ ops[j].y = ops[k].y) => j = k
    /\ \A k \in OutlineOps : ops[k].ch \in BoxChars

\* The title's characters are on the top row from column offset 2 on, left
\* of the top-right corner, and nothing else is above the outline.
TitleOnTopEdge ==
    /\ OutlineOps \cup TitleOps = 1..Len(ops)
    /\ {<<ops[k].x, ops[k].y, ops[k].ch>> : k \in TitleOps}
            = {<<RectX + 2 + (i - 1), RectY, TitleText[i]>> :
                    i \in {n \in 1..Len(TitleText) :
                                RectX + 2 + (n - 1) < RectX + RectW - 1}}

\* C26 as stated: a Rect of width w and height h emits corner and edge glyphs
\* only on the perimeter of the w x h box at its position, each perimeter cell
\* once, and nothing outside that box, also for w or h equal to 0 or 1; the
\* title's characters go on the top row starting at column offset 2, only at
\* columns left of the top-right corner, each with z_order one above the
\* rect's.
C26_RectOutline == ResolvedAlone => OutlineOnPerimeter /\ TitleOnTopEdge

\* What Rect's resolve does: the claim's picture for every rect of at least
\* one column and one row.
RectOutlineFromOne ==
    (ResolvedAlone /\ RectW >= 1 /\ RectH >= 1)
        => OutlineOnPerimeter /\ TitleOnTopEdge

\* A rect of width 0 and height 0 pushed its top-left corner.
EmptyRectCorner ==
    /\ ResolvedAlone
    /\ RectW = 0
    /\ RectH = 0
    /\ \E k \in 1..Len(ops) :
            ops[k].ch = "box_dr" /\ ops[k].x = RectX /\ ops[k].y = RectY

\* ------------------------------------------------------------------------
\* The loops of the resolvers, one iteration at a time (label.rs 68-102,
\* table.rs 12-48, arrow.rs 141-225)
\* ------------------------------------------------------------------------

MaxLineLen == 4
MaxWrapWidth == 3

\* Mutant: a hard break leaves the position where it is.
break_point_hard_break_stays(chunk, avail) ==
    IF rposition_space(chunk) >= 0
    THEN [row_len |-> rposition_space(chunk), advance |-> rposition_space(chunk) + 1]
    ELSE [row_len |-> avail, advance |-> 0]

\* `match chunk.iter().rposition(|&c| c == ' ')`: (row_len, advance)
break_point(chunk, avail) ==
    IF rposition_space(chunk) >= 0
    THEN [row_len |-> rposition_space(chunk), advance |-> rposition_space(chunk) + 1]
    ELSE [row_len |-> avail, advance |-> avail]

\* wrap_text_line of label.rs or of table.rs when it reaches its while loop.
WrapLoop(of, chars, w) ==
    [kind |-> "wrap", of |-> of, chars |-> chars, w |-> w,
     indent |-> IF of = "label" THEN list_continuation_indent(chars) ELSE 0,
     pos |-> 0, first |-> TRUE, rows |-> <<>>, at |-> "loop"]

\* Lines of letters and spaces, bare and behind a bullet or a number.
WrapLines(max_len) ==
    LET plain == UNION {[1..n -> {"a", " "}] : n \in 1..max_len}
    IN plain \cup {<<"-", " ">> \o l : l \in plain}
             \cup {<<"1", ".", " ">> \o l : l \in plain}

\* Arrow::resolve when it reaches its first loop, or when it has returned
\* for a single point.
ArrowLoop(x1, y1, x2, y2) ==
    [kind |-> "arrow", x1 |-> x1, y1 |-> y1, x2 |-> x2, y2 |-> y2,
     at |-> IF x1 = x2 /\ y1 = y2 THEN "returned" ELSE "first",
     v |-> IF x1 = x2 /\ y1 = y2 THEN 0
           ELSE IF x1 = x2 THEN y1
           ELSE IF y1 = y2 THEN x1
           ELSE IF Max(x2 - x1, x1 - x2) >= Max(y2 - y1, y1 - y2) THEN x1
           ELSE y1,
     cells |-> IF x1 = x2 /\ y1 = y2 THEN <<<<x1, y1>>>> ELSE <<>>]

\* Which way Arrow::resolve routes the arrow.
ArrowBranch(l) ==
    IF l.x1 = l.x2 /\ l.y1 = l.y2 THEN "point"
    ELSE IF l.x1 = l.x2 THEN "vertical"
    ELSE IF l.y1 = l.y2 THEN "horizontal"
    ELSE IF Max(l.x2 - l.x1, l.x1 - l.x2) >= Max(l.y2 - l.y1, l.y1 - l.y2)
    THEN "h_first"
    ELSE "v_first"

\* The running loop counts x (and not y).
RunsAlongX(l) ==
    \/ ArrowBranch(l) = "horizontal"
    \/ ArrowBranch(l) = "h_first" /\ l.at = "first"
    \/ ArrowBranch(l) = "v_first" /\ l.at = "second"

\* The end coordinate of the running loop and its step (sx or sy).
SegmentEnd(l) == IF RunsAlongX(l) THEN l.x2 ELSE l.y2
SegmentStep(l) ==
    IF RunsAlongX(l) THEN signum(l.x2 - l.x1) ELSE signum(l.y2 - l.y1)

\* The cell the body of the running loop emits.
SegmentCell(l) ==
    IF RunsAlongX(l)
    THEN <<l.v, IF l.at = "first" THEN l.y1 ELSE l.y2>>
    ELSE <<IF l.at = "first" THEN l.x1 ELSE l.x2, l.v>>

\* One turn of `while pos < chars.len()` in wrap_text_line.
WrapStep ==
    /\ pc = "loop"
    /\ loop.kind = "wrap"
    /\ loop.at = "loop"
    /\ loop.pos < Len(loop.chars)
    /\ LET col0 == IF loop.first \/ loop.of = "table" THEN 0
                   ELSE Min(loop.indent, saturating_sub(loop.w, 1))
           avail == loop.w - col0
           remaining == SubSeq(loop.chars, loop.pos + 1, Len(loop.chars))
           brk == break_point(SubSeq(remaining, 1, avail), avail)
       IN IF Len(remaining) <= avail
          THEN loop' = [loop EXCEPT !.first = FALSE,
                                    !.rows = Append(@, padded_row(remaining, col0, loop.w)),
                                    !.at = "returned"]
          ELSE loop' = [loop EXCEPT
                            !.first = FALSE,
                            !.rows = Append(@, padded_row(SubSeq(remaining, 1, brk.row_len),
                                                         col0, loop.w)),
                            !.pos = skip_spaces(loop.chars, loop.pos + brk.advance)]
    /\ UNCHANGED <<pc, frame, engine_vars, render_vars, coord_vars, table_vars,
                   editor_vars>>

\* The while loop of wrap_text_line ends with pos at the end of the line.
WrapExit ==
    /\ pc = "loop"
    /\ loop.kind = "wrap"
    /\ loop.at = "loop"
    /\ loop.pos >= Len(loop.chars)
    /\ loop' = [loop EXCEPT !.rows = IF @ = <<>> THEN <<<<>>>> ELSE @,
                            !.at = "returned"]
    /\ UNCHANGED <<pc, frame, engine_vars, render_vars, coord_vars, table_vars,
                   editor_vars>>

\* One turn of a `while x != x2` or `while y != y2` loop of Arrow::resolve.
ArrowStep ==
    /\ pc = "loop"
    /\ loop.kind = "arrow"
    /\ loop.at \in {"first", "second"}
    /\ loop.v # SegmentEnd(loop)
    /\ loop' = [loop EXCEPT !.cells = Append(@, SegmentCell(loop)),
                            !.v = @ + SegmentStep(loop)]
    /\ UNCHANGED <<pc, frame, engine_vars, render_vars, coord_vars, table_vars,
                   editor_vars>>

\* A segment loop of Arrow::resolve ends: the corner and the second loop
\* follow the first loop of a routed arrow, the head and the return follow
\* the last loop.
ArrowLoopEnd ==
    /\ pc = "loop"
    /\ loop.kind = "arrow"
    /\ loop.at \in {"first", "second"}
    /\ loop.v = SegmentEnd(loop)
    /\ IF loop.at = "first" /\ ArrowBranch(loop) = "h_first"
       THEN loop' = [loop EXCEPT !.cells = Append(@, <<loop.x2, loop.y1>>),
                                 !.at = "second",
                                 !.v = loop.y1 + signum(loop.y2 - loop.y1)]
       ELSE IF loop.at = "first" /\ ArrowBranch(loop) = "v_first"
       THEN loop' = [loop EXCEPT !.cells = Append(@, <<loop.x1, loop.y2>>),
                                 !.at = "second",
                                 !.v = loop.x1 + signum(loop.x2 - loop.x1)]
       ELSE loop' = [loop EXCEPT !.cells = Append(@, <<loop.x2, loop.y2>>),
                                 !.at = "returned"]
    /\ UNCHANGED <<pc, frame, engine_vars, render_vars, coord_vars, table_vars,
                   editor_vars>>

\* A resolver enters one of its loops.
LoopInit ==
    /\ pc = "loop"
    /\ loop \in {WrapLoop(of, chars, w) :
                    of \in {"label", "table"}, chars \in WrapLines(MaxLineLen),
                    w \in 1..MaxWrapWidth}
                \cup {ArrowLoop(a[1], a[2], b[1], b[2]) :
                        a \in (0..MaxArrowCoord) \X (0..MaxArrowCoord),
                        b \in (0..MaxArrowCoord) \X (0..MaxArrowCoord)}
    /\ frame = 0
    /\ EngineIdle
    /\ RenderIdle
    /\ CoordIdle
    /\ TableIdle
    /\ EditorIdle

\* The arrows and the groups: a resolver made of segment loops, and one
\* that does nothing.
PlainObjects == {o \in ObjectUniverse : o.type \in {"arrow", "group"}}

\* Engine::compile is called on a source of up to MaxObjects plain objects.
CompileStart ==
    /\ pc = "compile"
    /\ overflow_checks \in BOOLEAN
    /\ \E n \in 0..MaxObjects : \E objects \in [1..n -> PlainObjects] :
       \E frame_count \in 0..MaxFrameCount :
            source = SourcePresentation(6, 3, frame_count, objects)
    /\ frame = 0
    /\ next_object = 1
    /\ ops = <<>>
    /\ RenderIdle
    /\ CoordIdle
    /\ TableIdle
    /\ LoopIdle
    /\ EditorIdle

\* Engine::compile is called, or a resolver enters one of its loops.
TerminationInit == CompileStart \/ LoopInit

TerminationNext ==
    \/ ResolveObject \/ FinishFrame \/ CompileDone
    \/ WrapStep \/ WrapExit \/ ArrowStep \/ ArrowLoopEnd

\* compile and the resolvers run on one thread and nothing blocks them: a
\* step that can be taken is taken.
SpecTermination ==
    TerminationInit /\ [][TerminationNext]_vars /\ WF_vars(TerminationNext)

\* The distance of a segment loop from its end coordinate.
SegmentLeft(l) == Max(SegmentEnd(l) - l.v, l.v - SegmentEnd(l))

\* A turn of a wrap loop that does not leave the loop moves pos forward by at
\* least one character and not beyond the line; a turn that leaves it had at
\* least one character left and put it on the last row.  A turn of a segment
\* loop comes one cell closer to the end coordinate.
LoopProgress ==
    /\ (pc = "loop" /\ loop.kind = "wrap" /\ loop.pos < Len(loop.chars))
        => /\ loop'.pos <= Len(loop.chars)
           /\ loop'.at = "loop" => loop'.pos >= loop.pos + 1
           /\ loop'.at = "returned" => Len(loop'.rows) = Len(loop.rows) + 1
    /\ (pc = "loop" /\ loop.kind = "arrow" /\ loop'.at = loop.at)
        => SegmentLeft(loop') = SegmentLeft(loop) - 1

\* The loop was left, or compile returned its scenes (or panicked on an
\* overflow in a build that checks it).
Returned ==
    \/ pc = "loop" /\ loop.at = "returned"
    \/ pc \in {"compiled", "overflow_panic"}

\* What the loops leave behind is what the resolvers push.
LoopResult ==
    (pc = "loop" /\ loop.at = "returned") =>
        IF loop.kind = "wrap"
        THEN loop.rows = (IF loop.of = "label"
                          THEN wrap_text_line(loop.chars, loop.w)
                          ELSE table_wrap_text_line(loop.chars, loop.w))
        ELSE loop.cells =
                [k \in 1..Len(Arrow_draw(Arrow(At(loop.x1), At(loop.y1), At(loop.x2),
                                               At(loop.y2), TRUE, None, None,
                                               DefaultStyle, FrameRange(0, 1), 0),
                                         loop.x1, loop.y1, loop.x2, loop.y2).ops) |->
                    <<Arrow_draw(Arrow(At(loop.x1), At(loop.y1), At(loop.x2),
                                       At(loop.y2), TRUE, None, None, DefaultStyle,
                                       FrameRange(0, 1), 0),
                                 loop.x1, loop.y1, loop.x2, loop.y2).ops[k].x,
                      Arrow_draw(Arrow(At(loop.x1), At(loop.y1), At(loop.x2),
                                       At(loop.y2), TRUE, None, None, DefaultStyle,
                                       FrameRange(0, 1), 0),
                                 loop.x1, loop.y1, loop.x2, loop.y2).ops[k].y>>]

\* C27: every resolver call terminates: the word-wrap loops of Label and
\* Table consume at least one character of the line on every iteration for
\* every width >= 1 (also on lines of spaces and with a list indent larger
\* than the width), the segment loops of Arrow reach their end coordinate,
\* and Engine::compile eventually returns for a source with a finite
\* frame_count.
C27_Termination == [][LoopProgress]_vars /\ []LoopResult /\ <>Returned

\* A bullet line wider than the label was wrapped: the indent of 2 is larger
\* than what the width of 1 leaves, and the loop returned one row per
\* character it kept.
C27_Witness ==
    /\ pc = "loop"
    /\ loop.kind = "wrap"
    /\ loop.of = "label"
    /\ loop.chars = <<"-", " ", "a", "a">>
    /\ loop.w = 1
    /\ loop.indent = 2
    /\ loop.at = "returned"
    /\ Len(loop.rows) = 3

\* ------------------------------------------------------------------------
\* Claims about the Player (checked under SpecRender)
\* ------------------------------------------------------------------------

\* A blank grid of the contract's size with the first n frames applied in
\* order.
RECURSIVE Replayed(_)
Replayed(n) ==
    IF n = 0 THEN BlankGrid(contract.width, contract.height)
    ELSE apply_frame(Replayed(n - 1), frames[n])

\* C28: on a presentation with at least one frame, after any sequence of
\* next, previous, Home and End key events, current_frame is within
\* 0..frames.len()-1 and the Player's grid is the blank grid with the frames
\* 0..=current_frame applied in order; next at the last frame and previous at
\* frame 0 change nothing.
C28_PlayerGrid ==
    pc = "playing" =>
        /\ Len(frames) >= 1
        /\ current_frame \in 0..(Len(frames) - 1)
        /\ grid = Replayed(current_frame + 1)
        /\ current_frame = Len(frames) - 1 => ~ENABLED KeyNext
        /\ current_frame = 0 => ~ENABLED KeyLeft

\* The player went to the second frame and back to the first, whose grid is
\* not the one it left.
C28_Witness ==
    /\ pc = "playing"
    /\ Len(frames) = 2
    /\ current_frame = 0
    /\ grid = Replayed(1)
    /\ grid # Replayed(2)
    /\ grid # BlankGrid(contract.width, contract.height)

\* ------------------------------------------------------------------------
\* The editor: EditorState, the frame and object bookkeeping of
\* editor/state.rs and the key handlers of editor/input.rs.  Indices are
\* zero-based as in the source; objects[i + 1] is the object of index i.
\* ------------------------------------------------------------------------

\* enum Mode, the variants the frame and deletion keys go through.
ModeNormal == [kind |-> "Normal"]
ModeSelectObject(selected) == [kind |-> "SelectObject", selected |-> selected]
ModeSelectedObject(object_index) == [kind |-> "SelectedObject", object_index |-> object_index]
ModeConfirm(selected, action, return_mode) == [kind |-> "Confirm", selected |-> selected, action |-> action, return_mode |-> return_mode]

\* enum ConfirmAction
DeleteFrame == [kind |-> "DeleteFrame"]
DeleteObject(object_index) == [kind |-> "DeleteObject", object_index |-> object_index]

\* struct EditorState, without the file path, the configuration and the
\* blink flag.
EditorState(src, cur, mode, dirty, status_message) == [source |-> src, current_frame |-> cur, mode |-> mode, dirty |-> dirty, status_message |-> status_message]

\* EditorState::objects_on_current_frame: the indices of the objects whose
\* frame range contains the current frame, in list order.
RECURSIVE visible_from(_, _, _)
visible_from(objects, cur, i) ==
    IF i > Len(objects) THEN <<>>
    ELSE (IF contains(objects[i].frames, cur) THEN <<i - 1>> ELSE <<>>)
         \o visible_from(objects, cur, i + 1)

objects_on_current_frame(st) == visible_from(st.source.objects, st.current_frame, 1)

\* scene_object_coordinates_mut: the coordinate fields of an object, those
\* of its position apart.
CoordinateFields(o) ==
    CASE o.type \in {"label", "rect", "table"} -> {"width", "height"}
      [] o.type = "hline" -> {"y", "x_start", "x_end"}
      [] o.type = "arrow" -> {"x1", "y1", "x2", "y2"}
      [] OTHER -> {}

\* One object with its frame range replaced and every coordinate passed
\* through `shift`.
WithFrames(o, fr, shift(_)) ==
    [f \in DOMAIN o |->
        IF f = "frames" THEN fr
        ELSE IF f \in CoordinateFields(o) THEN shift(o[f])
        ELSE IF f = "position" THEN Position(shift(o[f].x), shift(o[f].y))
        ELSE o[f]]

\* The Animated arm of adjust_frames_after_insert.
coordinate_after_insert(c, inserted_after) ==
    IF c.kind = "animated"
    THEN Animated(c.from, c.to,
                  IF c.start_frame > inserted_after THEN c.start_frame + 1 ELSE c.start_frame,
                  IF c.end_frame > inserted_after THEN c.end_frame + 1 ELSE c.end_frame)
    ELSE c

\* The Animated arm of adjust_frames_after_delete.
coordinate_after_delete(c, deleted) ==
    IF c.kind = "animated"
    THEN Animated(c.from, c.to,
                  IF c.start_frame > deleted THEN c.start_frame - 1 ELSE c.start_frame,
                  IF c.end_frame > deleted THEN c.end_frame - 1 ELSE c.end_frame)
    ELSE c

\* adjust_frames_after_insert
adjust_frames_after_insert(src, inserted_after) ==
    LET shift(c) == coordinate_after_insert(c, inserted_after)
        moved(o) ==
            WithFrames(o,
                FrameRange(IF o.frames.start > inserted_after THEN o.frames.start + 1 ELSE o.frames.start,
                           IF o.frames.end > inserted_after THEN o.frames.end + 1 ELSE o.frames.end),
                shift)
    IN  SourcePresentation(src.width, src.height, src.frame_count + 1,
                           [i \in 1..Len(src.objects) |-> moved(src.objects[i])])

\* objects.retain(|obj| fr.start < fr.end): the objects whose range is not
\* empty, in order.
RECURSIVE retain(_)
retain(objects) ==
    IF Len(objects) = 0 THEN <<>>
    ELSE (IF Head(objects).frames.start < Head(objects).frames.end
          THEN <<Head(objects)>> ELSE <<>>)
         \o retain(Tail(objects))

\* adjust_frames_after_delete: the ranges move down, the objects whose
\* range is empty go, and the animations of the rest move down.
adjust_frames_after_delete(src, deleted) ==
    LET same(c) == c
        shift(c) == coordinate_after_delete(c, deleted)
        moved(o) ==
            WithFrames(o,
                FrameRange(IF o.frames.start > deleted THEN o.frames.start - 1 ELSE o.frames.start,
                           IF o.frames.end > deleted THEN o.frames.end - 1 ELSE o.frames.end),
                same)
        kept == retain([i \in 1..Len(src.objects) |-> moved(src.objects[i])])
    IN  SourcePresentation(src.width, src.height, src.frame_count - 1,
                           [i \in 1..Len(kept) |-> WithFrames(kept[i], kept[i].frames, shift)])

\* g.members.retain(|&m| m != removed_idx), then every larger member moves
\* down by one.
RECURSIVE members_after_delete(_, _)
members_after_delete(members, removed_idx) ==
    IF Len(members) = 0 THEN <<>>
    ELSE (IF Head(members) = removed_idx THEN <<>>
          ELSE IF Head(members) > removed_idx THEN <<Head(members) - 1>>
          ELSE <<Head(members)>>)
         \o members_after_delete(Tail(members), removed_idx)

\* adjust_group_members_after_delete
adjust_group_members_after_delete(src, removed_idx) ==
    SourcePresentation(src.width, src.height, src.frame_count,
        [i \in 1..Len(src.objects) |->
            IF src.objects[i].type = "group"
            THEN [src.objects[i] EXCEPT !.members = members_after_delete(@, removed_idx)]
            ELSE src.objects[i]])

\* The most objects and frames of the presentation the editor opens, and
\* the most edits made to it.
MaxEditorObjects == 3
MaxOpenFrames == 2
MaxEditorEdits == 2

\* The member lists of the group of index i among n objects: none or one of
\* the other indices.
MemberLists(i, n) == {<<>>} \cup {<<a>> : a \in (0..(n - 1)) \ {i}}

\* The objects the opened file may hold at index i: a line on the second
\* frame, a line on both frames whose end is animated, a line with an empty
\* frame range (the file format and the property panel accept any pair), or
\* a group.  The z_order is the index the object had when the file was
\* opened; no key changes it, so it names the object.
EditorObjects(i, n) ==
    {HLine(At(i), At(0), At(4), "box_h", DefaultStyle, FrameRange(1, 2), i),
     HLine(At(i), At(0), Animated(0, 2, 1, 2), "box_h", DefaultStyle, FrameRange(0, 2), i),
     HLine(At(i), At(0), At(4), "box_h", DefaultStyle, FrameRange(1, 1), i)}
    \cup {Group(members, FrameRange(0, 2), i) : members \in MemberLists(i, n)}

\* EditorState::open: frame 0, Mode::Normal, nothing to save, no message.
EditorInit ==
    /\ pc = "editor"
    /\ \E n \in 0..MaxEditorObjects :
       \E objects \in {os \in [1..n -> UNION {EditorObjects(i, n) : i \in 0..(n - 1)}] :
                          \A i \in 1..n : os[i] \in EditorObjects(i - 1, n)} :
       \E frame_count \in 1..MaxOpenFrames :
            state = EditorState(SourcePresentation(6, 3, frame_count, objects), 0,
                                ModeNormal, FALSE, None)
    /\ history = <<>>
    /\ frame = 0
    /\ EngineIdle
    /\ RenderIdle
    /\ CoordIdle
    /\ TableIdle
    /\ LoopIdle

\* One edit of the source: the key, its frame or object index, and the
\* source before and after.
Edit(op, index, before, after) == [op |-> op, index |-> index, before |-> before, after |-> after]

\* history with one more edit.
Logged(e) == Append(history, e)

EditorRest == <<pc, frame, engine_vars, render_vars, coord_vars, table_vars, loop_vars>>

\* handle_normal, next_frame
NextFrame ==
    /\ pc = "editor"
    /\ state.mode.kind = "Normal"
    /\ state.current_frame < saturating_sub(state.source.frame_count, 1)
    /\ state' = [state EXCEPT !.current_frame = @ + 1, !.status_message = None]
    /\ UNCHANGED <<history, EditorRest>>

\* handle_normal, prev_frame
PrevFrame ==
    /\ pc = "editor"
    /\ state.mode.kind = "Normal"
    /\ state.current_frame > 0
    /\ state' = [state EXCEPT !.current_frame = @ - 1, !.status_message = None]
    /\ UNCHANGED <<history, EditorRest>>

\* handle_normal, select_object
SelectObjectKey ==
    /\ pc = "editor"
    /\ state.mode.kind = "Normal"
    /\ state' = IF Len(objects_on_current_frame(state)) # 0
                THEN [state EXCEPT !.mode = ModeSelectObject(0), !.status_message = None]
                ELSE [state EXCEPT !.status_message = Some(<<"No objects on this frame">>)]
    /\ UNCHANGED <<history, EditorRest>>

\* handle_normal, add_frame
AddFrame ==
    /\ pc = "editor"
    /\ state.mode.kind = "Normal"
    /\ Len(history) < MaxEditorEdits
    /\ LET after == adjust_frames_after_insert(state.source, state.current_frame)
       IN  /\ state' = [state EXCEPT !.source = after,
                                     !.current_frame = @ + 1,
                                     !.dirty = TRUE,
                                     !.status_message = Some(<<"Duplicated", state.current_frame + 2>>)]
           /\ history' = Logged(Edit("add_frame", state.current_frame, state.source, after))
    /\ UNCHANGED EditorRest

\* handle_normal, remove_frame
RemoveFrame ==
    /\ pc = "editor"
    /\ state.mode.kind = "Normal"
    /\ state.source.frame_count > 1
    /\ state' = [state EXCEPT !.mode = ModeConfirm(0, DeleteFrame, ModeNormal)]
    /\ UNCHANGED <<history, EditorRest>>

\* handle_select_object, cancel
SelectCancel ==
    /\ pc = "editor"
    /\ state.mode.kind = "SelectObject"
    /\ state' = [state EXCEPT !.mode = ModeNormal]
    /\ UNCHANGED <<history, EditorRest>>

\* handle_select_object past cancel: with nothing visible every key leads
\* back to Mode::Normal, otherwise to `next(visible, selected)`.
SelectObjectStep(next(_, _)) ==
    /\ pc = "editor"
    /\ state.mode.kind = "SelectObject"
    /\ LET visible == objects_on_current_frame(state)
       IN  state' = [state EXCEPT !.mode = IF Len(visible) = 0 THEN ModeNormal
                                            ELSE next(visible, state.mode.selected)]
    /\ UNCHANGED <<history, EditorRest>>

\* handle_select_object, move_up
SelectMoveUp ==
    LET next(visible, selected) ==
            ModeSelectObject(IF selected = 0 THEN Len(visible) - 1 ELSE selected - 1)
    IN  SelectObjectStep(next)

\* handle_select_object, move_down
SelectMoveDown ==
    LET next(visible, selected) == ModeSelectObject((selected + 1) % Len(visible))
    IN  SelectObjectStep(next)

\* handle_select_object, confirm
SelectConfirm ==
    LET next(visible, selected) == ModeSelectedObject(visible[selected + 1])
    IN  SelectObjectStep(next)

\* handle_select_object, delete_object
SelectDelete ==
    LET next(visible, selected) ==
            ModeConfirm(0, DeleteObject(visible[selected + 1]), ModeSelectObject(selected))
    IN  SelectObjectStep(next)

\* handle_selected_object, cancel
SelectedCancel ==
    /\ pc = "editor"
    /\ state.mode.kind = "SelectedObject"
    /\ state' = [state EXCEPT !.mode = ModeNormal]
    /\ UNCHANGED <<history, EditorRest>>

\* handle_selected_object, delete_object
SelectedDelete ==
    /\ pc = "editor"
    /\ state.mode.kind = "SelectedObject"
    /\ state' = [state EXCEPT !.mode =
                    ModeConfirm(0, DeleteObject(state.mode.object_index),
                                ModeSelectedObject(state.mode.object_index))]
    /\ UNCHANGED <<history, EditorRest>>

\* handle_confirm, Up | Down | Tab
ConfirmToggle ==
    /\ pc = "editor"
    /\ state.mode.kind = "Confirm"
    /\ state' = [state EXCEPT !.mode.selected = IF @ = 0 THEN 1 ELSE 0]
    /\ UNCHANGED <<history, EditorRest>>

\* handle_confirm, Enter on ConfirmAction::DeleteFrame with Yes selected
confirm_delete_frame(st) ==
    LET deleted == st.current_frame
        after == adjust_frames_after_delete(st.source, deleted)
    IN  EditorState(after,
                    IF st.current_frame >= after.frame_count
                    THEN saturating_sub(after.frame_count, 1) ELSE st.current_frame,
                    ModeNormal, TRUE,
                    Some(<<"Deleted frame", deleted + 1, after.frame_count>>))

\* handle_confirm, Enter on ConfirmAction::DeleteObject with Yes selected
confirm_delete_object(st, object_index) ==
    IF object_index < Len(st.source.objects)
    THEN EditorState(
            adjust_group_members_after_delete(
                [st.source EXCEPT !.objects = remove(@, object_index)], object_index),
            st.current_frame, ModeNormal, TRUE, Some(<<"Object deleted">>))
    ELSE [st EXCEPT !.mode = ModeNormal]

\* handle_confirm, Enter: Yes runs the action, No returns to the mode the
\* question came from.
ConfirmEnter ==
    /\ pc = "editor"
    /\ state.mode.kind = "Confirm"
    /\ state.mode.selected = 0 => Len(history) < MaxEditorEdits
    /\ LET action == state.mode.action
           index == IF action.kind = "DeleteFrame" THEN state.current_frame
                    ELSE action.object_index
       IN  IF state.mode.selected = 0
           THEN /\ state' = IF action.kind = "DeleteFrame"
                            THEN confirm_delete_frame(state)
                            ELSE confirm_delete_object(state, action.object_index)
                /\ history' = IF state'.source # state.source
                              THEN Logged(Edit(IF action.kind = "DeleteFrame"
                                               THEN "delete_frame" ELSE "delete_object",
                                               index, state.source, state'.source))
                              ELSE history
           ELSE /\ state' = [state EXCEPT !.mode = state.mode.return_mode]
                /\ UNCHANGED history
    /\ UNCHANGED EditorRest

\* handle_confirm, Esc
ConfirmEsc ==
    /\ pc = "editor"
    /\ state.mode.kind = "Confirm"
    /\ state' = [state EXCEPT !.mode = state.mode.return_mode]
    /\ UNCHANGED <<history, EditorRest>>

EditorNext ==
    \/ NextFrame \/ PrevFrame \/ SelectObjectKey \/ AddFrame \/ RemoveFrame
    \/ SelectCancel \/ SelectMoveUp \/ SelectMoveDown \/ SelectConfirm \/ SelectDelete
    \/ SelectedCancel \/ SelectedDelete
    \/ ConfirmToggle \/ ConfirmEnter \/ ConfirmEsc

SpecEditor == EditorInit /\ [][EditorNext]_vars

\* The editor is open and waits for a key.
EditorOpen == pc = "editor"

\* ------------------------------------------------------------------------
\* Claims about the editor (checked under SpecEditor)
\* ------------------------------------------------------------------------

\* The latest edit of the source.
LastEdit == history[Len(history)]

\* The zero-based index in `objects` of the object named z, or -1 when it
\* is not there.
IndexOf(objects, z) ==
    IF \E i \in 1..Len(objects) : objects[i].z_order = z
    THEN (CHOOSE i \in 1..Len(objects) : objects[i].z_order = z) - 1
    ELSE -1

\* Every member of every group is the index of an object.
ValidGroups(src) ==
    \A i \in 1..Len(src.objects) :
        src.objects[i].type = "group" =>
            \A k \in 1..Len(src.objects[i].members) :
                src.objects[i].members[k] < Len(src.objects)

\* The member list a group should have after an edit: the members whose
\* object is still there, each by the index that object has now.
RECURSIVE SurvivingMembers(_, _, _)
SurvivingMembers(members, before, after) ==
    IF Len(members) = 0 THEN <<>>
    ELSE LET now == IndexOf(after.objects, before.objects[Head(members) + 1].z_order)
         IN  (IF now = -1 THEN <<>> ELSE <<now>>)
             \o SurvivingMembers(Tail(members), before, after)

\* After the edit e every group lists valid indices of the objects it
\* listed before, less the removed ones.
MembersFollow(e) ==
    \A i \in 1..Len(e.after.objects) :
        LET g == e.after.objects[i]
            was == e.before.objects[IndexOf(e.before.objects, g.z_order) + 1]
        IN  g.type = "group" =>
                /\ \A k \in 1..Len(g.members) : g.members[k] < Len(e.after.objects)
                /\ g.members = SurvivingMembers(was.members, e.before, e.after)

\* C29: after a confirmed object deletion or a confirmed frame deletion
\* (which also removes every object whose frame range becomes empty), every
\* member index of every Group is below the length of the object list and
\* refers to the same object as before the operation, and the members whose
\* object was removed are dropped.
C29_GroupMembers ==
    (EditorOpen /\ Len(history) > 0) =>
        ((LastEdit.op \in {"delete_object", "delete_frame"} /\ ValidGroups(LastEdit.before))
            => MembersFollow(LastEdit))

\* The part that holds: a confirmed object deletion renumbers the members.
ObjectDeletionRenumbers ==
    (EditorOpen /\ Len(history) > 0) =>
        ((LastEdit.op = "delete_object" /\ ValidGroups(LastEdit.before))
            => MembersFollow(LastEdit))

\* An object deletion moved a member down by one.
ObjectDeletionShifted ==
    /\ EditorOpen
    /\ Len(history) > 0
    /\ LastEdit.op = "delete_object"
    /\ ValidGroups(LastEdit.before)
    /\ \E i \in 1..Len(LastEdit.after.objects) :
        /\ LastEdit.after.objects[i].type = "group"
        /\ LastEdit.after.objects[i].members = <<0>>
        /\ LastEdit.before.objects[i + 1].members = <<1>>

\* A frame deletion removed an object whose range it emptied and left a
\* group with a member list that was not renumbered.
FrameDeletionDangles ==
    /\ EditorOpen
    /\ Len(history) > 0
    /\ LastEdit.op = "delete_frame"
    /\ ValidGroups(LastEdit.before)
    /\ \A i \in 1..Len(LastEdit.before.objects) :
            LastEdit.before.objects[i].frames.start < LastEdit.before.objects[i].frames.end
    /\ Len(LastEdit.after.objects) < Len(LastEdit.before.objects)
    /\ ~MembersFollow(LastEdit)

\* The edit before the latest one.
EditBefore == history[Len(history) - 1]

\* The frame cursor is on a frame of a presentation that has one.
CursorInRange ==
    /\ state.source.frame_count >= 1
    /\ 0 <= state.current_frame
    /\ state.current_frame < state.source.frame_count

\* The add-frame e after frame k = e.index: one frame more, and what was
\* visible on frame k is visible on frames k and k + 1.
AddDuplicates(e) ==
    /\ e.after.frame_count = e.before.frame_count + 1
    /\ Len(e.after.objects) = Len(e.before.objects)
    /\ \A i \in 1..Len(e.before.objects) :
        contains(e.before.objects[i].frames, e.index) =>
            /\ contains(e.after.objects[i].frames, e.index)
            /\ contains(e.after.objects[i].frames, e.index + 1)

\* The latest edit deleted the frame that the edit before it had added.
AddedThenDeleted ==
    /\ Len(history) >= 2
    /\ EditBefore.op = "add_frame"
    /\ LastEdit.op = "delete_frame"
    /\ LastEdit.index = EditBefore.index + 1
    /\ LastEdit.before = EditBefore.after

\* The delete-frame d gave back the frame count and every object's frame
\* range of before the add-frame a.
Restores(a, d) ==
    /\ d.after.frame_count = a.before.frame_count
    /\ Len(d.after.objects) = Len(a.before.objects)
    /\ \A i \in 1..Len(a.before.objects) :
        d.after.objects[i].frames = a.before.objects[i].frames

\* C30: from frame_count >= 1 and current_frame = 0, after any sequence of
\* next-frame, previous-frame, add-frame and confirmed delete-frame keys,
\* frame_count >= 1 and 0 <= current_frame < frame_count; add-frame after
\* frame k raises frame_count by one and makes every object visible on frame
\* k visible on the new frame k + 1; deleting frame k + 1 right after
\* restores every object's frame range and frame_count.
C30_FrameCursor ==
    EditorOpen =>
        /\ CursorInRange
        /\ (Len(history) > 0 /\ LastEdit.op = "add_frame") => AddDuplicates(LastEdit)
        /\ AddedThenDeleted => Restores(EditBefore, LastEdit)

\* Every object of the source has a frame in its range.
NoEmptyRange(src) ==
    \A i \in 1..Len(src.objects) : src.objects[i].frames.start < src.objects[i].frames.end

\* The part that holds: the cursor stays on a frame, add-frame duplicates
\* the frame, and when no object has an empty range, deleting the added
\* frame gives back the source as it was.
FrameCursorOfVisibleObjects ==
    EditorOpen =>
        /\ CursorInRange
        /\ (Len(history) > 0 /\ LastEdit.op = "add_frame") => AddDuplicates(LastEdit)
        /\ (AddedThenDeleted /\ NoEmptyRange(EditBefore.before)) => LastEdit.after = EditBefore.before

\* A frame was added after frame 1 and deleted again, and the source, which
\* has an animated object, is as before.
AddedFrameUndone ==
    /\ EditorOpen
    /\ AddedThenDeleted
    /\ EditBefore.index = 1
    /\ NoEmptyRange(EditBefore.before)
    /\ \E i \in 1..Len(EditBefore.before.objects) :
        /\ EditBefore.before.objects[i].type = "hline"
        /\ EditBefore.before.objects[i].x_end.kind = "animated"
        /\ EditBefore.after.objects[i] # EditBefore.before.objects[i]
    /\ LastEdit.after = EditBefore.before

\* A frame was added and deleted again, and an object that had an empty
\* frame range is gone.
EmptyRangeObjectLost ==
    /\ EditorOpen
    /\ AddedThenDeleted
    /\ ~NoEmptyRange(EditBefore.before)
    /\ Len(LastEdit.after.objects) < Len(EditBefore.before.objects)

====
